---- MODULE Spec2Model ----
(***************************************************************************)
(* A model of taskbuffer's Go engine: the syntax compiler and line parser   *)
(* (go/parse.go), the horizon resolver (go/horizon.go) and the report       *)
(* builder (go/format.go).                                                  *)
(*                                                                          *)
(* Go strings are sequences of one-character strings.  Calendar dates are   *)
(* day numbers counted from 1970-01-01; every cutoff and due date of the    *)
(* program is a midnight, so a time.Time that holds a date is its day       *)
(* number.  Regular expressions are syntax trees run by a backtracking      *)
(* matcher with Go's leftmost-first semantics.                              *)
(***************************************************************************)
EXTENDS Integers, Sequences, FiniteSets, TLC

VARIABLES
    pc,        \* position of the modelled call: "call" before it, "done" after
    cfg,       \* Config handed to NewParseContext
    parseCtx,  \* the ParseContext that NewParseContext returned
    matches,   \* the raw lines handed to ParseTasks
    rawLine,   \* RawMatch.Text handed to ParseTask
    parsed,    \* what ParseTask returned
    specs,     \* []HorizonSpec handed to ResolveHorizons
    now,       \* the reference instant: [day, tod]
    weekStart, \* time.Weekday handed to ResolveHorizons
    overlap,   \* overlap policy string
    resolved,  \* what ResolveHorizons returned
    tasks,     \* []Task handed to FormatTaskfile / the Task handed to formatTaskLine
    opts,      \* FormatOpts
    report,    \* what FormatTaskfile returned
    file,      \* the bytes of the markdown file a command works on
    orig,      \* the bytes of that file before the first command
    args,      \* the commands run so far, each with its arguments
    calls,     \* the number of commands run so far
    err,       \* whether the last command returned an error
    stateFile, \* the current_task file of the state directory
    got,       \* what ReadCurrentTaskFrom / ParseFrontmatter returned
    disk,      \* the markdown files ParseFrontmatter reads, by path
    fmCache,   \* fmCache.cache: the results kept, by path
    undo_stack, \* undo.lua undo_stack: the entries that can be undone
    redo_stack  \* undo.lua redo_stack: the entries that can be redone

\* a file that does not exist, and the file with the bytes data
NoFile       == [exists |-> FALSE, data |-> <<>>]
FileOf(data) == [exists |-> TRUE, data |-> data]

\* the two stacks of undo.lua
stackVars == <<undo_stack, redo_stack>>
NoStacks == undo_stack = <<>> /\ redo_stack = <<>>

\* what state.go works on
stateVars == <<stateFile, got, disk, fmCache, stackVars>>

\* no state file is at hand, none has been read, and no frontmatter either
NoState == stateFile = NoFile /\ got = <<>> /\ disk = <<>> /\ fmCache = <<>> /\ NoStacks

\* what the commands of main.go work on
fileVars == <<file, orig, args, calls, err, stateVars>>

vars == <<pc, cfg, parseCtx, matches, rawLine, parsed, specs, now, weekStart, overlap, resolved,
          tasks, opts, report, fileVars>>

\* what the parser, the resolver and the report builder work on
reportVars == <<cfg, parseCtx, matches, rawLine, parsed, specs, weekStart, overlap, resolved,
                tasks, opts, report>>

\* no command has run and no file is at hand
NoFiles == file = <<>> /\ orig = <<>> /\ args = <<>> /\ calls = 0 /\ err = FALSE /\ NoState

\* Names the value v for the expression In: the := of the source.
Bind(v, In(_)) == In(v)

(***************************************************************************)
(* Strings                                                                 *)
(***************************************************************************)

\* The ASCII characters the model uses, in byte order: Go compares strings
\* bytewise.
Ascii ==
  << "\t", "\n", "\f", "\r", " ", "!", "\"", "#", "$", "%", "&", "'",
     "(", ")", "*", "+", ",", "-", ".", "/", "0", "1", "2", "3",
     "4", "5", "6", "7", "8", "9", ":", ";", "<", "=", ">", "?",
     "@", "A", "B", "C", "D", "E", "F", "G", "H", "I", "J", "K",
     "L", "M", "N", "O", "P", "Q", "R", "S", "T", "U", "V", "W",
     "X", "Y", "Z", "[", "\\", "]", "^", "_", "a", "b", "c",
     "d", "e", "f", "g", "h", "i", "j", "k", "l", "m", "n", "o",
     "p", "q", "r", "s", "t", "u", "v", "w", "x", "y", "z", "{",
     "|", "}", "~" >>

Ord == [c \in {Ascii[i] : i \in 1..Len(Ascii)} |->
          CHOOSE i \in 1..Len(Ascii) : Ascii[i] = c]

Digits == {"0", "1", "2", "3", "4", "5", "6", "7", "8", "9"}

Lower == {"a", "b", "c", "d", "e", "f", "g", "h", "i", "j", "k", "l", "m",
          "n", "o", "p", "q", "r", "s", "t", "u", "v", "w", "x", "y", "z"}

Upper == {"A", "B", "C", "D", "E", "F", "G", "H", "I", "J", "K", "L", "M",
          "N", "O", "P", "Q", "R", "S", "T", "U", "V", "W", "X", "Y", "Z"}

\* regexp classes \w and \s, and unicode.IsSpace on ASCII
WordChars == Lower \cup Upper \cup Digits \cup {"_"}

SpaceChars == {"\t", "\n", "\f", "\r", " "}

\* the characters regexp.QuoteMeta escapes
MetaChars == {"\\", ".", "+", "*", "?", "(", ")", "|", "[", "]", "{", "}",
              "^", "$"}

RECURSIVE StrLess(_, _)
\* a < b on Go strings
StrLess(a, b) ==
    IF b = <<>> THEN FALSE
    ELSE IF a = <<>> THEN TRUE
    ELSE IF Head(a) = Head(b) THEN StrLess(Tail(a), Tail(b))
    ELSE Ord[Head(a)] < Ord[Head(b)]

IsPrefix(p, s) == Len(p) <= Len(s) /\ SubSeq(s, 1, Len(p)) = p

\* s[from:] with a 1-based first position
From(s, from) == SubSeq(s, from, Len(s))

RECURSIVE Concat(_)
Concat(ss) == IF ss = <<>> THEN <<>> ELSE Head(ss) \o Concat(Tail(ss))

\* strings.Index: the 0-based byte offset of the first occurrence, or -1
Index(s, sub) ==
    LET hits == {i \in 1..(Len(s) - Len(sub) + 1) : SubSeq(s, i, i + Len(sub) - 1) = sub}
    IN  IF Len(sub) = 0 THEN 0
        ELSE IF hits = {} THEN -1
        ELSE (CHOOSE i \in hits : \A j \in hits : i <= j) - 1

RECURSIVE TrimLeftSet(_, _)
\* strings.TrimLeft(s, cutset)
TrimLeftSet(s, cut) ==
    IF s # <<>> /\ Head(s) \in cut THEN TrimLeftSet(Tail(s), cut) ELSE s

RECURSIVE TrimRightSet(_, _)
\* strings.TrimRight(s, cutset)
TrimRightSet(s, cut) ==
    IF s # <<>> /\ s[Len(s)] \in cut THEN TrimRightSet(SubSeq(s, 1, Len(s) - 1), cut) ELSE s

\* strings.TrimSpace
TrimSpace(s) == TrimRightSet(TrimLeftSet(s, SpaceChars), SpaceChars)

RECURSIVE Split(_, _)
\* strings.Split(s, sep) for a non-empty sep
Split(s, sep) ==
    Bind(Index(s, sep), LAMBDA i :
        IF i < 0 THEN <<s>>
        ELSE <<SubSeq(s, 1, i)>> \o Split(From(s, i + Len(sep) + 1), sep))

\* strings.Replace(s, old, new, 1) for a non-empty old
ReplaceFirst(s, old, new) ==
    Bind(Index(s, old), LAMBDA i :
        IF i < 0 THEN s
        ELSE SubSeq(s, 1, i) \o new \o From(s, i + Len(old) + 1))

(***************************************************************************)
(* Regular expressions (package regexp, leftmost-first)                    *)
(***************************************************************************)

Cls(S)    == [t |-> "cls", set |-> S]
NotCls(S) == [t |-> "ncls", set |-> S]
AnyChar   == NotCls({"\n"})
SeqOf(xs) == [t |-> "seq", xs |-> xs]
AltOf(xs) == [t |-> "alt", xs |-> xs]
\* x* for a character class x, the only starred expressions of the program
Star(x)   == [t |-> "star", x |-> x]
Opt(x)    == [t |-> "opt", x |-> x]
Plus(x)   == SeqOf(<<x, Star(x)>>)
Cap(n, x) == [t |-> "cap", n |-> n, x |-> x]
Bol       == [t |-> "bol"]
Eol       == [t |-> "eol"]
Lit(s)    == SeqOf([i \in 1..Len(s) |-> Cls({s[i]})])
Rep(x, k) == SeqOf([i \in 1..k |-> x])

NoMatch == [ok |-> FALSE]
NoCap   == [set |-> FALSE, from |-> 0, to |-> 0]

\* class node n takes character c
Accepts(n, c) == IF n.t = "cls" THEN c \in n.set ELSE c \notin n.set

\* how many characters of s from position i on class node n takes in a row
ClassRun(n, s, i) ==
    CHOOSE k \in 0..(Len(s) - i + 1) :
        /\ \A j \in 0..(k - 1) : Accepts(n, s[i + j])
        /\ k = Len(s) - i + 1 \/ ~Accepts(n, s[i + k])

RECURSIVE Run(_, _, _, _)
\* Runs the stack of pending nodes on s from position i (1-based); the first
\* success in backtracking order is the match Go reports.
Run(stk, s, i, caps) ==
    IF stk = <<>> THEN [ok |-> TRUE, end |-> i, caps |-> caps]
    ELSE
      LET n == Head(stk)
          rest == Tail(stk)
      IN  CASE n.t = "cls" ->
                 IF i <= Len(s) /\ s[i] \in n.set THEN Run(rest, s, i + 1, caps) ELSE NoMatch
            [] n.t = "ncls" ->
                 IF i <= Len(s) /\ s[i] \notin n.set THEN Run(rest, s, i + 1, caps) ELSE NoMatch
            [] n.t = "seq" -> Run(n.xs \o rest, s, i, caps)
            [] n.t = "alt" ->
                 IF n.xs = <<>> THEN NoMatch
                 ELSE LET r == Run(<<Head(n.xs)>> \o rest, s, i, caps)
                      IN  IF r.ok THEN r ELSE Run(<<AltOf(Tail(n.xs))>> \o rest, s, i, caps)
            [] n.t = "star" ->
                 \* greedy: the longest run of the class after which the rest matches
                 LET oks == {k \in 0..ClassRun(n.x, s, i) : Run(rest, s, i + k, caps).ok}
                 IN  IF oks = {} THEN NoMatch
                     ELSE Run(rest, s, i + (CHOOSE k \in oks : \A j \in oks : j <= k), caps)
            [] n.t = "opt" ->
                 LET r == Run(<<n.x>> \o rest, s, i, caps)
                 IN  IF r.ok THEN r ELSE Run(rest, s, i, caps)
            [] n.t = "cap" ->
                 Run(<<n.x, [t |-> "endcap", n |-> n.n, from |-> i]>> \o rest, s, i, caps)
            [] n.t = "endcap" ->
                 Run(rest, s, i, [caps EXCEPT ![n.n] = [set |-> TRUE, from |-> n.from, to |-> i]])
            [] n.t = "bol" -> IF i = 1 THEN Run(rest, s, i, caps) ELSE NoMatch
            [] n.t = "eol" -> IF i = Len(s) + 1 THEN Run(rest, s, i, caps) ELSE NoMatch

\* A match attempt at one start position; re is [node, ncap].
MatchAt(re, s, i) ==
    Bind(Run(<<re.node>>, s, i, [k \in 1..re.ncap |-> NoCap]), LAMBDA r :
        IF r.ok THEN [ok |-> TRUE, from |-> i, to |-> r.end, caps |-> r.caps] ELSE NoMatch)

\* the leftmost match starting at position >= i
FindFrom(re, s, i) ==
    LET starts == {j \in i..(Len(s) + 1) : MatchAt(re, s, j).ok}
    IN  IF starts = {} THEN NoMatch
        ELSE MatchAt(re, s, CHOOSE j \in starts : \A k \in starts : j <= k)

\* Regexp.FindStringSubmatch / FindStringIndex: m.from..m.to-1 is the match
Find(re, s) == FindFrom(re, s, 1)

\* the text of capture group k of match m ("" when the group took no part)
Group(m, s, k) ==
    IF m.caps[k].set THEN SubSeq(s, m.caps[k].from, m.caps[k].to - 1) ELSE <<>>

\* the text of the whole match
Whole(m, s) == SubSeq(s, m.from, m.to - 1)

RECURSIVE FindAllFrom(_, _, _)
\* Regexp.FindAllStringSubmatch(s, -1) for an expression that matches no
\* empty string: successive non-overlapping leftmost matches
FindAllFrom(re, s, i) ==
    Bind(FindFrom(re, s, i), LAMBDA m :
        IF ~m.ok THEN <<>> ELSE <<m>> \o FindAllFrom(re, s, m.to))

FindAll(re, s) == FindAllFrom(re, s, 1)

RECURSIVE RemoveAllFrom(_, _, _)
\* Regexp.ReplaceAllString(s, "") for an expression that matches no empty string
RemoveAllFrom(re, s, i) ==
    Bind(FindFrom(re, s, i), LAMBDA m :
        IF ~m.ok THEN From(s, i)
        ELSE SubSeq(s, i, m.from - 1) \o RemoveAllFrom(re, s, m.to))

RemoveAll(re, s) == RemoveAllFrom(re, s, 1)

\* regexp.QuoteMeta
QuoteMeta(s) ==
    Concat([i \in 1..Len(s) |-> IF s[i] \in MetaChars THEN <<"\\", s[i]>> ELSE <<s[i]>>])

RECURSIVE CompileQuoted(_)
\* What regexp.MustCompile makes of a string that QuoteMeta returned: a backslash makes
\* the next character literal, every other character stands for itself.
CompileQuoted(e) ==
    IF e = <<>> THEN <<>>
    ELSE IF Head(e) = "\\" /\ Len(e) >= 2 THEN <<Cls({e[2]})>> \o CompileQuoted(Tail(Tail(e)))
    ELSE <<Cls({Head(e)})>> \o CompileQuoted(Tail(e))

(***************************************************************************)
(* Calendar (package time)                                                 *)
(***************************************************************************)

\* the day number of the proleptic Gregorian date y-m-d, for m in 1..12
DaysFromCivil(y, m, d) ==
    Bind(IF m <= 2 THEN y - 1 ELSE y, LAMBDA yy :
    Bind(yy \div 400, LAMBDA era :
    Bind(yy - era * 400, LAMBDA yoe :
    Bind(IF m > 2 THEN m - 3 ELSE m + 9, LAMBDA mp :
    Bind((153 * mp + 2) \div 5 + d - 1, LAMBDA doy :
    Bind(yoe * 365 + yoe \div 4 - yoe \div 100 + doy, LAMBDA doe :
        era * 146097 + doe - 719468))))))

\* Time.Date(): the [y, m, d] of a day number
CivilFromDays(n) ==
    Bind(n + 719468, LAMBDA z :
    Bind(z \div 146097, LAMBDA era :
    Bind(z - era * 146097, LAMBDA doe :
    Bind((doe - doe \div 1460 + doe \div 36524 - doe \div 146096) \div 365, LAMBDA yoe :
    Bind(doe - (365 * yoe + yoe \div 4 - yoe \div 100), LAMBDA doy :
    Bind((5 * doy + 2) \div 153, LAMBDA mp :
    Bind(IF mp < 10 THEN mp + 3 ELSE mp - 9, LAMBDA m :
        [y |-> yoe + era * 400 + (IF m <= 2 THEN 1 ELSE 0),
         m |-> m,
         d |-> doy - (153 * mp + 2) \div 5 + 1])))))))

\* time.Date(y, m, d, 0, 0, 0, 0, loc): month and day out of range are
\* normalised
GoDate(y, m, d) ==
    LET m0 == m - 1
        yn == y + m0 \div 12
        mn == (m0 % 12) + 1
    IN  DaysFromCivil(yn, mn, 1) + d - 1

\* Time.AddDate(years, months, days) on a midnight
AddDate(t, years, months, days) ==
    Bind(CivilFromDays(t), LAMBDA c : GoDate(c.y + years, c.m + months, c.d + days))

\* Time.Weekday(): Sunday = 0 ... Saturday = 6
Weekday(t) == (t + 4) % 7

Sunday == 0
Monday == 1
Saturday == 6

\* the zero time.Time, January 1 of year 1
ZeroTime == DaysFromCivil(1, 1, 1)

\* an extractDate that keeps the time of day in the result
extractDateKeepsClock(timeIn) == timeIn.day + timeIn.tod

\* main.go extractDate: the midnight that starts the instant's calendar day
extractDate(timeIn) == timeIn.day

(***************************************************************************)
(* Horizon resolver (go/horizon.go)                                        *)
(***************************************************************************)

Str_past           == <<"p", "a", "s", "t">>
Str_yesterday      == <<"y", "e", "s", "t", "e", "r", "d", "a", "y">>
Str_end_of_week    == <<"e", "n", "d", "_", "o", "f", "_", "w", "e", "e", "k">>
Str_end_of_month   == <<"e", "n", "d", "_", "o", "f", "_", "m", "o", "n", "t", "h">>
Str_end_of_quarter == <<"e", "n", "d", "_", "o", "f", "_", "q", "u", "a", "r", "t", "e", "r">>
Str_end_of_year    == <<"e", "n", "d", "_", "o", "f", "_", "y", "e", "a", "r">>

\* the values of HorizonSpec.After (interface{}): kind is the dynamic type
AfterFloat(n)  == [kind |-> "float64", n |-> n, s |-> <<>>]
AfterInt(n)    == [kind |-> "int", n |-> n, s |-> <<>>]
AfterString(s) == [kind |-> "string", n |-> 0, s |-> s]
AfterNil       == [kind |-> "nil", n |-> 0, s |-> <<>>]
AfterBool      == [kind |-> "bool", n |-> 0, s |-> <<>>]

NoOrder    == [set |-> FALSE, v |-> 0]
OrderOf(n) == [set |-> TRUE, v |-> n]

HorizonSpec(label, after, undated, order) ==
    [Label |-> label, After |-> after, Undated |-> undated, Order |-> order]

ResolvedHorizon(label, cutoff, undated, order) ==
    [Label |-> label, Cutoff |-> cutoff, Undated |-> undated, Order |-> order]

defaultHorizonSpecs ==
    << HorizonSpec("# Overdue", AfterString(Str_past), FALSE, NoOrder),
       HorizonSpec("# Today", AfterFloat(0), FALSE, NoOrder),
       HorizonSpec("# Tomorrow", AfterFloat(1), FALSE, NoOrder),
       HorizonSpec("# This Week", AfterFloat(2), FALSE, NoOrder),
       HorizonSpec("# This Month", AfterFloat(8), FALSE, NoOrder),
       HorizonSpec("# This Year", AfterString(<<"3", "1", "d">>), FALSE, NoOrder),
       HorizonSpec("# Far Off", AfterString(<<"3", "6", "6", "d">>), FALSE, NoOrder),
       HorizonSpec("# Someday", AfterNil, TRUE, NoOrder) >>

\* ^(-?\d+)([dwmy])$
horizonDurationRe ==
    [node |-> SeqOf(<<Bol,
                      Cap(1, SeqOf(<<Opt(Cls({"-"})), Plus(Cls(Digits))>>)),
                      Cap(2, Cls({"d", "w", "m", "y"})),
                      Eol>>),
     ncap |-> 2]

DigitVal(c) == Ord[c] - Ord["0"]

RECURSIVE AtoiDigits(_, _)
AtoiDigits(s, acc) ==
    IF s = <<>> THEN acc ELSE AtoiDigits(Tail(s), acc * 10 + DigitVal(Head(s)))

\* strconv.Atoi on an optional sign and digits (values within int range)
Atoi(s) ==
    IF s # <<>> /\ Head(s) = "-" THEN 0 - AtoiDigits(Tail(s), 0) ELSE AtoiDigits(s, 0)

parseDuration(s) ==
    Bind(Find(horizonDurationRe, s), LAMBDA m :
        IF ~m.ok THEN [err |-> TRUE, days |-> 0]
        ELSE Bind(Atoi(Group(m, s, 1)), LAMBDA n :
             Bind(Group(m, s, 2), LAMBDA u :
                 CASE u = <<"d">> -> [err |-> FALSE, days |-> n]
                   [] u = <<"w">> -> [err |-> FALSE, days |-> n * 7]
                   [] u = <<"m">> -> [err |-> FALSE, days |-> n * 30]
                   [] u = <<"y">> -> [err |-> FALSE, days |-> n * 365]
                   [] OTHER -> [err |-> TRUE, days |-> 0])))

\* the week keyword with no step over the boundary day
endOfWeekNoAdvance(kw, today, ws) ==
    IF kw = Str_end_of_week
    THEN LET weekEnd == IF ws - 1 < 0 THEN Saturday ELSE ws - 1
         IN  [err |-> FALSE, t |-> AddDate(today, 0, 0, ((weekEnd - Weekday(today) + 7) % 7) + 1)]
    ELSE [err |-> TRUE, t |-> ZeroTime]

resolveCalendarKeyword(kw, today, ws) ==
    Bind(CivilFromDays(today), LAMBDA c :
        CASE kw = Str_past -> [err |-> FALSE, t |-> AddDate(today, -100, 0, 0)]
          [] kw = Str_yesterday -> [err |-> FALSE, t |-> AddDate(today, 0, 0, -1)]
          [] kw = Str_end_of_week ->
               LET weekEnd == IF ws - 1 < 0 THEN Saturday ELSE ws - 1
                   d0 == (weekEnd - Weekday(today) + 7) % 7
                   daysUntilEnd == IF d0 = 0 THEN 7 ELSE d0
               IN  [err |-> FALSE, t |-> AddDate(today, 0, 0, daysUntilEnd + 1)]
          [] kw = Str_end_of_month -> [err |-> FALSE, t |-> GoDate(c.y, c.m + 1, 1)]
          [] kw = Str_end_of_quarter ->
               [err |-> FALSE, t |-> GoDate(c.y, ((c.m - 1) \div 3) * 3 + 4, 1)]
          [] kw = Str_end_of_year -> [err |-> FALSE, t |-> GoDate(c.y + 1, 1, 1)]
          [] OTHER -> [err |-> TRUE, t |-> ZeroTime])

parseAfterValue(val, nw, ws) ==
    LET today == extractDate(nw)
    IN  CASE val.kind = "float64" -> [err |-> FALSE, t |-> AddDate(today, 0, 0, val.n)]
          [] val.kind = "int" -> [err |-> FALSE, t |-> AddDate(today, 0, 0, val.n)]
          [] val.kind = "string" ->
               Bind(parseDuration(val.s), LAMBDA d :
                   IF ~d.err THEN [err |-> FALSE, t |-> AddDate(today, 0, 0, d.days)]
                   ELSE resolveCalendarKeyword(val.s, today, ws))
          [] OTHER -> [err |-> TRUE, t |-> ZeroTime]

\* sort.Slice on the short slices of the model (at most 12 elements): Go
\* sorts those by insertion, which keeps equal elements in their order.
\* The element at index i moves to position rank(i).
SortSlice(s, Less(_, _)) ==
    LET rank(i) == 1 + Cardinality({j \in 1..Len(s) :
                        Less(s[j], s[i]) \/ (~Less(s[i], s[j]) /\ j < i)})
    IN  [k \in 1..Len(s) |-> s[CHOOSE i \in 1..Len(s) : rank(i) = k]]

cutoffBefore(a, b) == a.Cutoff < b.Cutoff

\* the "sorted" branch left out: the dated horizons stay in input order
sortedOverlapSkipped(dated) == dated

\* horizon.go: sort by cutoff ascending, then reassign order
sortedOverlap(dated) ==
    Bind(SortSlice(dated, cutoffBefore), LAMBDA srt :
        [i \in 1..Len(srt) |-> [srt[i] EXCEPT !.Order = i - 1]])

RECURSIVE resolveLoop(_, _, _, _, _, _)
\* the loop over specs: acc is [dated, undated, parseErrors]
resolveLoop(sp, i, n, nw, ws, acc) ==
    IF i > Len(sp) THEN acc
    ELSE LET s == sp[i]
         IN  IF s.Undated
             THEN resolveLoop(sp, i + 1, n, nw, ws,
                    [acc EXCEPT !.undated = Append(@,
                        ResolvedHorizon(s.Label, ZeroTime, TRUE,
                            IF s.Order.set THEN s.Order.v ELSE n + (i - 1)))])
             ELSE Bind(parseAfterValue(s.After, nw, ws), LAMBDA r :
                      IF r.err
                      THEN resolveLoop(sp, i + 1, n, nw, ws,
                             [acc EXCEPT !.parseErrors = Append(@, s.Label)])
                      ELSE resolveLoop(sp, i + 1, n, nw, ws,
                             [acc EXCEPT !.dated = Append(@,
                                 ResolvedHorizon(s.Label, r.t, FALSE,
                                     IF s.Order.set THEN s.Order.v ELSE i - 1))]))

RECURSIVE ResolveHorizons(_, _, _, _)
\* a resolver that gives up the whole custom list on the first spec that
\* fails, whether or not a dated spec resolved
ResolveHorizonsAllOrNothing(sp0, nw, ws, ov) ==
    Bind(IF Len(sp0) = 0 THEN defaultHorizonSpecs ELSE sp0, LAMBDA sp :
    Bind(resolveLoop(sp, 1, Len(sp), nw, ws,
                     [dated |-> <<>>, undated |-> <<>>, parseErrors |-> <<>>]), LAMBDA acc :
        IF Len(acc.parseErrors) > 0
        THEN Bind(ResolveHorizons(defaultHorizonSpecs, nw, ws, ov), LAMBDA d :
                 [list |-> d.list, warnings |-> acc.parseErrors \o d.warnings])
        ELSE Bind(IF ov = "" \/ ov = "sorted" THEN sortedOverlap(acc.dated) ELSE acc.dated,
                  LAMBDA dated :
                 [list |-> dated \o acc.undated, warnings |-> acc.parseErrors])))

\* returns [list, warnings]: the resolved horizons and the labels warned
\* about on stderr; the error result is always nil
ResolveHorizons(sp0, nw, ws, ov) ==
    Bind(IF Len(sp0) = 0 THEN defaultHorizonSpecs ELSE sp0, LAMBDA sp :
    Bind(resolveLoop(sp, 1, Len(sp), nw, ws,
                     [dated |-> <<>>, undated |-> <<>>, parseErrors |-> <<>>]), LAMBDA acc :
        IF Len(acc.parseErrors) > 0 /\ Len(acc.dated) = 0
        THEN Bind(ResolveHorizons(defaultHorizonSpecs, nw, ws, ov), LAMBDA d :
                 [list |-> d.list, warnings |-> acc.parseErrors \o d.warnings])
        ELSE Bind(IF ov = "" \/ ov = "sorted" THEN sortedOverlap(acc.dated) ELSE acc.dated,
                  LAMBDA dated :
                 [list |-> dated \o acc.undated, warnings |-> acc.parseErrors])))

(***************************************************************************)
(* Report builder (go/format.go)                                           *)
(***************************************************************************)

NoDate     == [set |-> FALSE, day |-> 0]
DateOf(d)  == [set |-> TRUE, day |-> d]

Marker(kind, date, time) == [Kind |-> kind, Date |-> date, Time |-> time]

Task(path, line, body, due, dueTime, duration, tags, status, markers) ==
    [FilePath |-> path, LineNumber |-> line, Body |-> body, DueDate |-> due,
     DueTime |-> dueTime, Duration |-> duration, Tags |-> tags,
     Status |-> status, Markers |-> markers]

FormatOpts(showMarkers, ignoreUndated, tagFilter, horizons, ov) ==
    [ShowMarkers |-> showMarkers, IgnoreUndated |-> ignoreUndated,
     TagFilter |-> tagFilter, Horizons |-> horizons, Overlap |-> ov]

\* time.Duration counts nanoseconds in 64 bits.  The model counts half days:
\* a span of d whole days is 2 * d, and the two sentinels of narrowestHorizon
\* fall between whole days, 1<<63 - 1 ns after 106751 days and 1<<62 - 1 ns
\* after 53375 days.
MaxDuration == 213503
UnboundedSpan == 106751

\* Time.Sub: the difference, saturated at the largest and smallest Duration
Sub(t, u) ==
    LET d == 2 * (t - u)
    IN  IF d > MaxDuration THEN MaxDuration
        ELSE IF d < 0 - MaxDuration - 1 THEN 0 - MaxDuration - 1
        ELSE d

\* a horizon test that leaves the cutoff day itself to the preceding horizon
inHorizonAfterCutoff(date, idx, horizons) ==
    IF idx = Len(horizons) - 1
    THEN date > horizons[idx + 1].Cutoff
    ELSE date > horizons[idx + 1].Cutoff /\ date <= horizons[idx + 2].Cutoff

\* idx is 0-based, as in the source
inHorizon(date, idx, horizons) ==
    IF idx = Len(horizons) - 1
    THEN date > horizons[idx + 1].Cutoff \/ date = horizons[idx + 1].Cutoff
    ELSE (date = horizons[idx + 1].Cutoff \/ date > horizons[idx + 1].Cutoff)
         /\ date < horizons[idx + 2].Cutoff

\* the index of the last dated horizon of the list, 0 when there is none
lastDatedFallback(horizons) ==
    LET ds == {i \in 0..(Len(horizons) - 1) : ~horizons[i + 1].Undated}
    IN  IF ds = {} THEN 0 ELSE CHOOSE i \in ds : \A j \in ds : j <= i

\* a first-match scan that takes the last qualifying horizon instead
firstMatchHorizonLast(date, horizons) ==
    LET ok == {i \in 0..(Len(horizons) - 1) :
                 ~horizons[i + 1].Undated /\ date >= horizons[i + 1].Cutoff}
    IN  IF ok # {} THEN CHOOSE i \in ok : \A j \in ok : j <= i
        ELSE lastDatedFallback(horizons)

firstMatchHorizon(date, horizons) ==
    LET ok == {i \in 0..(Len(horizons) - 1) :
                 ~horizons[i + 1].Undated
                 /\ (date = horizons[i + 1].Cutoff \/ date > horizons[i + 1].Cutoff)}
    IN  IF ok # {} THEN CHOOSE i \in ok : \A j \in ok : i <= j
        ELSE lastDatedFallback(horizons)

RECURSIVE narrowestLoop(_, _, _, _, _)
\* the loop of narrowestHorizon from 0-based index i on
narrowestLoop(date, hs, i, bestIdx, bestSpan) ==
    IF i > Len(hs) - 1 THEN bestIdx
    ELSE LET h == hs[i + 1]
             last == i = Len(hs) - 1 \/ hs[i + 2].Undated
             inRange == IF last THEN date = h.Cutoff \/ date > h.Cutoff
                        ELSE (date = h.Cutoff \/ date > h.Cutoff) /\ date < hs[i + 2].Cutoff
             span == IF last THEN UnboundedSpan ELSE Sub(hs[i + 2].Cutoff, h.Cutoff)
         IN  IF ~h.Undated /\ inRange /\ span < bestSpan
             THEN narrowestLoop(date, hs, i + 1, i, span)
             ELSE narrowestLoop(date, hs, i + 1, bestIdx, bestSpan)

narrowestHorizon(date, datedHorizons) ==
    Bind(narrowestLoop(date, datedHorizons, 0, -1, MaxDuration), LAMBDA bestIdx :
        IF bestIdx = -1 THEN lastDatedFallback(datedHorizons) ELSE bestIdx)

\* the default branch of the switch: scan forward from the previous interval
sortedScan(date, interval, datedHorizons) ==
    LET hits == {i \in interval..(Len(datedHorizons) - 1) : inHorizon(date, i, datedHorizons)}
    IN  IF hits = {} THEN interval ELSE CHOOSE i \in hits : \A j \in hits : i <= j

taskMatchesTags(t, tags) ==
    \E i \in 1..Len(tags) : \E j \in 1..Len(t.Tags) : t.Tags[j] = tags[i]

\* a less function of the dated sort that stops at the file path
datedLessNoLine(a, b) ==
    IF a.DueDate.day # b.DueDate.day THEN a.DueDate.day < b.DueDate.day
    ELSE StrLess(a.FilePath, b.FilePath)

\* the less function of the dated sort: date, then file path, then line
datedLess(a, b) ==
    IF a.DueDate.day # b.DueDate.day THEN a.DueDate.day < b.DueDate.day
    ELSE IF a.FilePath # b.FilePath THEN StrLess(a.FilePath, b.FilePath)
    ELSE a.LineNumber < b.LineNumber

\* the less function of the undated sort: file path, then line
undatedLess(a, b) ==
    IF a.FilePath # b.FilePath THEN StrLess(a.FilePath, b.FilePath)
    ELSE a.LineNumber < b.LineNumber

LabelLine(label, hz) == [kind |-> "label", text |-> label, hz |-> hz]
BlankLine            == [kind |-> "blank"]
TaskLine(t)          == [kind |-> "task", task |-> t]

\* a header step that also writes the label of every horizon it skips over
writeHeaderOfSkipped(out, interval, lastInterval, datedHorizons) ==
    IF interval # lastInterval
    THEN (IF lastInterval # -1 THEN Append(out, BlankLine) ELSE out)
         \o [j \in 1..(IF interval > lastInterval THEN interval - lastInterval ELSE 1) |->
                IF interval > lastInterval
                THEN LabelLine(datedHorizons[lastInterval + 1 + j].Label, lastInterval + j)
                ELSE LabelLine(datedHorizons[interval + 1].Label, interval)]
    ELSE out

\* the header step of the loop over dated tasks: a blank line and the label
\* of the horizon when the interval changes
writeHeader(out, interval, lastInterval, datedHorizons) ==
    IF interval # lastInterval
    THEN (IF lastInterval # -1 THEN Append(out, BlankLine) ELSE out)
         \o <<LabelLine(datedHorizons[interval + 1].Label, interval)>>
    ELSE out

RECURSIVE datedLoop(_, _, _, _, _, _, _)
\* the loop over the sorted dated tasks; indexing an empty datedHorizons
\* panics
datedLoop(dated, k, datedHorizons, ov, interval0, lastInterval, out) ==
    IF k > Len(dated) THEN [panic |-> FALSE, lines |-> out]
    ELSE Bind(extractDate(dated[k].DueDate), LAMBDA date :
         Bind(CASE ov = "first_match" -> firstMatchHorizon(date, datedHorizons)
                [] ov = "narrowest" -> narrowestHorizon(date, datedHorizons)
                [] OTHER -> sortedScan(date, interval0, datedHorizons), LAMBDA interval :
             IF interval # lastInterval /\ interval >= Len(datedHorizons)
             THEN [panic |-> TRUE, lines |-> <<>>]
             ELSE datedLoop(dated, k + 1, datedHorizons, ov, interval, interval,
                      Append(writeHeader(out, interval, lastInterval, datedHorizons),
                             TaskLine(dated[k])))))

\* "Resolve horizons if not provided"
horizonsOf(o, nw) ==
    IF Len(o.Horizons) = 0 THEN ResolveHorizons(<<>>, nw, Monday, "sorted").list ELSE o.Horizons

\* the dated horizons of the split
datedHorizonsOf(o, nw) == SelectSeq(horizonsOf(o, nw), LAMBDA h : ~h.Undated)

\* The report is the sequence of its lines: a label line carries the label
\* written and the index of its horizon, a task line the task that
\* formatTaskLine renders.
FormatTaskfile(ts, nw, o) ==
    Bind(IF Len(o.TagFilter) > 0
         THEN SelectSeq(ts, LAMBDA t : taskMatchesTags(t, o.TagFilter)) ELSE ts, LAMBDA filtered :
    Bind(horizonsOf(o, nw), LAMBDA horizons :
    Bind(SelectSeq(horizons, LAMBDA h : ~h.Undated), LAMBDA datedHorizons :
    Bind(SelectSeq(horizons, LAMBDA h : h.Undated), LAMBDA undatedHs :
    Bind(SortSlice(SelectSeq(filtered, LAMBDA t : t.DueDate.set), datedLess), LAMBDA dated :
    Bind(SortSlice(SelectSeq(filtered, LAMBDA t : ~t.DueDate.set), undatedLess), LAMBDA undated :
    Bind(IF o.Overlap = "" THEN "sorted" ELSE o.Overlap, LAMBDA ov :
    Bind(datedLoop(dated, 1, datedHorizons, ov, 0, -1, <<>>), LAMBDA body :
    Bind(IF undatedHs # <<>> THEN undatedHs[Len(undatedHs)].Label ELSE "# Someday",
         LAMBDA undatedLabel :
        IF body.panic THEN body
        ELSE IF Len(undated) > 0 /\ ~o.IgnoreUndated
        THEN [panic |-> FALSE,
              lines |-> (IF Len(body.lines) > 0 THEN Append(body.lines, BlankLine) ELSE body.lines)
                        \o <<LabelLine(undatedLabel, -1)>>
                        \o [i \in 1..Len(undated) |-> TaskLine(undated[i])]]
        ELSE body)))))))))

(***************************************************************************)
(* Inputs and specifications                                               *)
(***************************************************************************)

MaxTasks == 2
MaxHorizons == 3

\* sequences over S of length at most n
SeqsUpTo(S, n) == UNION {[1..k -> S] : k \in 0..n}

\* the instant the tests fix: 2026-02-17, a Tuesday
TestNow == [day |-> DaysFromCivil(2026, 2, 17), tod |-> 0]
Today == extractDate(TestNow)

Idle == <<>>

\* Cutoffs a horizon list can hold: "past" (100 years back), today, the day
\* after tomorrow and "50y"; a due date lies before, on and between them.
Cutoffs == {AddDate(Today, -100, 0, 0), Today, Today + 2, Today + 50 * 365}
DueDates == {Today - 1, Today, Today + 1, Today + 2}

LabelNames == <<"# A", "# B", "# C", "# D", "# E", "# F">>

\* the horizon lists handed to FormatTaskfile: entry i is dated with a cutoff
\* or undated, and is labelled LabelNames[i]
HorizonChoices ==
    {[Undated |-> FALSE, Cutoff |-> c] : c \in Cutoffs} \cup {[Undated |-> TRUE, Cutoff |-> ZeroTime]}
HorizonList(cs) ==
    [i \in 1..Len(cs) |-> ResolvedHorizon(LabelNames[i], cs[i].Cutoff, cs[i].Undated, i - 1)]

TaskChoices == {DateOf(d) : d \in DueDates} \cup {NoDate}
\* the tasks handed to FormatTaskfile: task k is line k of one file
TaskList(ds) ==
    [k \in 1..Len(ds) |-> Task(<<"a">>, k, <<>>, ds[k], <<>>, <<>>, <<>>, <<"o">>, <<>>)]

InitFormatWith(policies) ==
    /\ pc = "call"
    /\ NoFiles
    /\ cfg = Idle /\ parseCtx = Idle /\ matches = Idle /\ rawLine = Idle /\ parsed = Idle
    /\ specs = Idle /\ weekStart = Monday /\ overlap = Idle /\ resolved = Idle
    /\ now = TestNow
    /\ \E ds \in SeqsUpTo(TaskChoices, MaxTasks) : tasks = TaskList(ds)
    /\ \E cs \in SeqsUpTo(HorizonChoices, MaxHorizons) : \E ov \in policies :
          opts = FormatOpts(FALSE, FALSE, <<>>, HorizonList(cs), ov)
    /\ report = Idle

CallFormatTaskfile ==
    /\ pc = "call"
    /\ report' = FormatTaskfile(tasks, now, opts)
    /\ pc' = "done"
    /\ UNCHANGED <<fileVars, matches, cfg, parseCtx, rawLine, parsed, specs, now, weekStart, overlap, resolved, tasks, opts>>

\* the overlap policies a caller can name; "" stands for the default
Policies == {"", "sorted", "first_match", "narrowest"}

InitFormat == InitFormatWith(Policies)
SpecFormat == InitFormat /\ [][CallFormatTaskfile]_vars

(***************************************************************************)
(* Properties of the report                                                *)
(***************************************************************************)

\* the dated horizons the report was built over
DH == datedHorizonsOf(opts, now)

Ascending(hs) == \A i \in 1..(Len(hs) - 1) : hs[i].Cutoff <= hs[i + 1].Cutoff

\* the 0-based horizon index of the label line above line k (-2: none)
SectionOf(lines, k) ==
    LET ls == {j \in 1..(k - 1) : lines[j].kind = "label"}
    IN  IF ls = {} THEN -2 ELSE lines[CHOOSE j \in ls : \A l \in ls : l <= j].hz

Finished == pc = "done" /\ ~report.panic

SortedPolicy == opts.Overlap \in {"", "sorted"}

DatedTaskLines == {k \in 1..Len(report.lines) :
                     report.lines[k].kind = "task" /\ report.lines[k].task.DueDate.set}

DateAt(k) == report.lines[k].task.DueDate.day

EveryDatedTaskListed ==
    \A n \in 1..Len(tasks) : tasks[n].DueDate.set =>
        \E k \in DatedTaskLines : report.lines[k].task = tasks[n]

\* date lies in [cutoff[i], cutoff[i+1]), the last interval unbounded (i 0-based)
Contains(hs, i, date) ==
    /\ i \in 0..(Len(hs) - 1)
    /\ hs[i + 1].Cutoff <= date
    /\ (i < Len(hs) - 1 => date < hs[i + 2].Cutoff)

\* C3: under the sorted policy with the dated horizons in ascending cutoff
\* order, every dated task due on or after the first cutoff is listed under
\* the one horizon whose interval [cutoff[i], cutoff[i+1]) holds its date
\* (the last one unbounded); a task due on a cutoff belongs to that horizon.
C3_SortedListsUnderContainingHorizon ==
    (Finished /\ SortedPolicy /\ Ascending(DH) /\ Len(DH) > 0) =>
        /\ \A n \in 1..Len(tasks) :
             (tasks[n].DueDate.set /\ tasks[n].DueDate.day >= DH[1].Cutoff) =>
                \E k \in DatedTaskLines : report.lines[k].task = tasks[n]
        /\ \A k \in DatedTaskLines :
             DateAt(k) >= DH[1].Cutoff => Contains(DH, SectionOf(report.lines, k), DateAt(k))

\* a task due exactly on the cutoff of a horizon that has a predecessor with
\* an earlier cutoff, listed in a finished report
C3_Witness ==
    /\ Finished /\ SortedPolicy /\ Ascending(DH)
    /\ \E k \in DatedTaskLines : \E i \in 1..(Len(DH) - 1) :
          /\ SectionOf(report.lines, k) = i
          /\ DateAt(k) = DH[i + 1].Cutoff
          /\ DH[i].Cutoff < DateAt(k)

\* C5: under first_match every dated task is listed under the first horizon,
\* in list order, whose cutoff is on or before its date.
C5_FirstMatchListsUnderFirstQualifying ==
    (Finished /\ opts.Overlap = "first_match") =>
        /\ EveryDatedTaskListed
        /\ \A k \in DatedTaskLines :
             LET ok == {i \in 0..(Len(DH) - 1) : DH[i + 1].Cutoff <= DateAt(k)}
             IN  ok # {} => /\ SectionOf(report.lines, k) \in ok
                            /\ \A j \in ok : SectionOf(report.lines, k) <= j

\* a task for which two horizons qualify, the later one in the list with the
\* later cutoff, listed under the earlier one
C5_Witness ==
    /\ Finished /\ opts.Overlap = "first_match"
    /\ \E k \in DatedTaskLines : \E i, j \in 0..(Len(DH) - 1) :
          /\ i < j
          /\ DH[i + 1].Cutoff < DH[j + 1].Cutoff
          /\ DH[j + 1].Cutoff <= DateAt(k)
          /\ SectionOf(report.lines, k) = i

\* C6: a header line appears only directly above a task listed under it: a
\* horizon without tasks contributes no header.
C6_NoHeaderWithoutTask ==
    Finished =>
        \A k \in 1..Len(report.lines) : report.lines[k].kind = "label" =>
            /\ k < Len(report.lines)
            /\ report.lines[k + 1].kind = "task"
            /\ report.lines[k + 1].task.DueDate.set = (report.lines[k].hz # -1)

\* a finished report with a header, over horizons one of which got no task
C6_Witness ==
    /\ Finished
    /\ \E k \in 1..Len(report.lines) : report.lines[k].kind = "label"
    /\ \E i \in 0..(Len(DH) - 1) :
          \A k \in 1..Len(report.lines) :
              report.lines[k].kind = "label" => report.lines[k].hz # i

\* the width in days of the interval of horizon i (0-based), the last one
\* unbounded: Unbounded stands for no finite width
Width(hs, i) ==
    IF i = Len(hs) - 1 THEN [unbounded |-> TRUE, days |-> 0]
    ELSE [unbounded |-> FALSE, days |-> hs[i + 2].Cutoff - hs[i + 1].Cutoff]

NotWider(w1, w2) == w2.unbounded \/ (~w1.unbounded /\ w1.days <= w2.days)

\* C4: under narrowest every dated task is listed under a horizon whose
\* interval holds its date and is no wider than any other interval holding
\* it, the last horizon counting as unbounded, so that it is chosen only when
\* no bounded interval holds the date.
C4_NarrowestListsUnderSmallestWidth ==
    (Finished /\ opts.Overlap = "narrowest") =>
        /\ EveryDatedTaskListed
        /\ \A k \in DatedTaskLines :
             LET in == {i \in 0..(Len(DH) - 1) : Contains(DH, i, DateAt(k))}
                 sec == SectionOf(report.lines, k)
             IN  in # {} => /\ sec \in in
                            /\ \A j \in in : NotWider(Width(DH, sec), Width(DH, j))

(***************************************************************************)
(* The horizon resolver called on its own                                  *)
(***************************************************************************)

MaxSpecs == 3

\* the "after" values of a config file: day offsets, a keyword, a duration,
\* a string that is neither, null and a value of another type
AfterChoices ==
    {AfterFloat(0), AfterInt(3), AfterString(Str_past), AfterString(<<"1", "w">>),
     AfterString(Str_end_of_month), AfterString(<<"1", "x">>), AfterNil, AfterBool}

\* the specs a caller writes: dated ones, one with an explicit order, and
\* undated ones with and without an order
SpecChoices ==
    {[After |-> a, Undated |-> FALSE, Order |-> NoOrder] : a \in AfterChoices}
    \cup {[After |-> AfterFloat(0), Undated |-> FALSE, Order |-> OrderOf(7)],
          [After |-> AfterNil, Undated |-> TRUE, Order |-> NoOrder],
          [After |-> AfterNil, Undated |-> TRUE, Order |-> OrderOf(0)]}

\* the spec list of the choices cs: entry i is labelled LabelNames[i]
SpecList(cs) ==
    [i \in 1..Len(cs) |-> HorizonSpec(LabelNames[i], cs[i].After, cs[i].Undated, cs[i].Order)]

InitResolve ==
    /\ pc = "call"
    /\ NoFiles
    /\ cfg = Idle /\ parseCtx = Idle /\ matches = Idle /\ rawLine = Idle /\ parsed = Idle
    /\ tasks = Idle /\ opts = Idle /\ report = Idle
    /\ now = TestNow
    /\ weekStart = Monday
    /\ \E cs \in SeqsUpTo(SpecChoices, MaxSpecs) : specs = SpecList(cs)
    /\ overlap \in Policies
    /\ resolved = Idle

CallResolveHorizons ==
    /\ pc = "call"
    /\ resolved' = ResolveHorizons(specs, now, weekStart, overlap)
    /\ pc' = "done"
    /\ UNCHANGED <<fileVars, matches, cfg, parseCtx, rawLine, parsed, specs, now, weekStart, overlap, tasks, opts, report>>

SpecResolve == InitResolve /\ [][CallResolveHorizons]_vars

(***************************************************************************)
(* Properties of the resolved horizons                                     *)
(***************************************************************************)

Resolved == pc = "done" /\ resolved # Idle

\* the positions of the specs that are undated, that are dated and resolve,
\* and that are dated and fail to resolve
UndatedSpecs == {i \in 1..Len(specs) : specs[i].Undated}
ResolvingSpecs ==
    {i \in 1..Len(specs) : ~specs[i].Undated /\ ~parseAfterValue(specs[i].After, now, weekStart).err}
FailingSpecs ==
    {i \in 1..Len(specs) : ~specs[i].Undated /\ parseAfterValue(specs[i].After, now, weekStart).err}

\* horizon h is what spec i resolves to
ResolvesTo(i, h) ==
    /\ h.Label = specs[i].Label
    /\ h.Undated = specs[i].Undated
    /\ ~specs[i].Undated => h.Cutoff = parseAfterValue(specs[i].After, now, weekStart).t

\* the labels and cutoffs of the built-in defaults, resolved on the day of now
DefaultResolution ==
    << [Label |-> "# Overdue", Undated |-> FALSE, Cutoff |-> AddDate(extractDate(now), -100, 0, 0)],
       [Label |-> "# Today", Undated |-> FALSE, Cutoff |-> extractDate(now)],
       [Label |-> "# Tomorrow", Undated |-> FALSE, Cutoff |-> extractDate(now) + 1],
       [Label |-> "# This Week", Undated |-> FALSE, Cutoff |-> extractDate(now) + 2],
       [Label |-> "# This Month", Undated |-> FALSE, Cutoff |-> extractDate(now) + 8],
       [Label |-> "# This Year", Undated |-> FALSE, Cutoff |-> extractDate(now) + 31],
       [Label |-> "# Far Off", Undated |-> FALSE, Cutoff |-> extractDate(now) + 366],
       [Label |-> "# Someday", Undated |-> TRUE, Cutoff |-> ZeroTime] >>

IsDefaultResolution(list) ==
    /\ Len(list) = Len(DefaultResolution)
    /\ \A k \in 1..Len(list) :
          /\ list[k].Label = DefaultResolution[k].Label
          /\ list[k].Undated = DefaultResolution[k].Undated
          /\ list[k].Cutoff = DefaultResolution[k].Cutoff

C8_AlwaysADatedHorizon ==
    Resolved => \E k \in 1..Len(resolved.list) : ~resolved.list[k].Undated

\* C9: under the sorted policy (the empty policy string included) the dated
\* horizons come in ascending cutoff order, each with its 0-based position
\* as its order, and every undated horizon comes after all dated ones.
C9_SortedAscendingOrderIsPosition ==
    (Resolved /\ overlap \in {"", "sorted"}) =>
        \A k \in 1..Len(resolved.list) :
            /\ ~resolved.list[k].Undated => resolved.list[k].Order = k - 1
            /\ \A j \in 1..(k - 1) :
                  /\ resolved.list[j].Undated => resolved.list[k].Undated
                  /\ ~resolved.list[k].Undated =>
                         resolved.list[j].Cutoff <= resolved.list[k].Cutoff

\* specs written with the later cutoff first, an explicit order and an
\* undated spec ahead of a dated one, resolved under the sorted policy
C9_Witness ==
    /\ Resolved /\ overlap \in {"", "sorted"}
    /\ FailingSpecs = {}
    /\ \E i, j \in ResolvingSpecs :
          /\ i < j
          /\ parseAfterValue(specs[j].After, now, weekStart).t
               < parseAfterValue(specs[i].After, now, weekStart).t
          /\ specs[j].Order.set
    /\ \E u \in UndatedSpecs : \E i \in ResolvingSpecs : u < i

(***************************************************************************)
(* Syntax compiler and line parser (go/parse.go)                           *)
(***************************************************************************)

Range(f) == {f[x] : x \in DOMAIN f}

\* the elements of a finite set of strings as a sequence, in the arbitrary
\* order in which Go ranges over a map
RECURSIVE SetToSeq(_)
SetToSeq(S) ==
    IF S = {} THEN <<>>
    ELSE Bind(CHOOSE x \in S : TRUE, LAMBDA x : <<x>> \o SetToSeq(S \ {x}))

\* main.go Config: Checkbox maps status names to checkbox literals
Config(checkbox, tagPrefix, markerPrefix, dateWrapper) ==
    [Checkbox |-> checkbox, TagPrefix |-> tagPrefix, MarkerPrefix |-> markerPrefix,
     DateWrapper |-> dateWrapper]

RawMatch(path, lineNumber, text) == [Path |-> path, LineNumber |-> lineNumber, Text |-> text]

Str_open       == <<"o", "p", "e", "n">>
Str_done       == <<"d", "o", "n", "e">>
Str_irrelevant == <<"i", "r", "r", "e", "l", "e", "v", "a", "n", "t">>
Str_partial    == <<"p", "a", "r", "t", "i", "a", "l">>

\* the built-in checkbox map
defaultCheckbox ==
    (Str_open :> <<"-", " ", "[", " ", "]">>) @@ (Str_done :> <<"-", " ", "[", "x", "]">>)
    @@ (Str_irrelevant :> <<"-", " ", "[", "-", "]">>)
    @@ (Str_partial :> <<"-", " ", "[", "~", "]">>)

\* a compile step that keeps every entry, blank literals included
validateCheckboxSkipped(checkbox) == checkbox

\* "Validate: reject empty or whitespace-only checkbox strings"
validateCheckbox(checkbox) ==
    [n \in {m \in DOMAIN checkbox : TrimSpace(checkbox[m]) # <<>>} |-> checkbox[n]]

\* the orders in which a run may range over the keys S of a map
MapOrders(S) ==
    {o \in [1..Cardinality(S) -> S] : \A x \in S : \E i \in 1..Cardinality(S) : o[i] = x}

\* a statusMap loop in which every entry overwrites the one before it
RECURSIVE lastWinsLoop(_, _, _, _)
lastWinsLoop(checkbox, order, i, m) ==
    IF i > Len(order) THEN m
    ELSE lastWinsLoop(checkbox, order, i + 1,
             [cb \in DOMAIN m \cup {checkbox[order[i]]} |->
                 IF cb = checkbox[order[i]] THEN order[i] ELSE m[cb]])

buildStatusMapLastWins(checkbox, order) == lastWinsLoop(checkbox, order, 1, <<>>)

\* the statusMap loop from entry i of the iteration order on: an entry whose
\* literal is already mapped replaces the name only when its own is smaller
RECURSIVE statusMapLoop(_, _, _, _)
statusMapLoop(checkbox, order, i, m) ==
    IF i > Len(order) THEN m
    ELSE statusMapLoop(checkbox, order, i + 1,
             [cb \in DOMAIN m \cup {checkbox[order[i]]} |->
                 IF cb # checkbox[order[i]] THEN m[cb]
                 ELSE IF cb \in DOMAIN m /\ ~StrLess(order[i], m[cb]) THEN m[cb]
                 ELSE order[i]])

\* statusMap, built ranging over the checkbox map in the given order
buildStatusMap(checkbox, order) == statusMapLoop(checkbox, order, 1, <<>>)

alphabeticalLess(a, b) == StrLess(a, b)

lengthDescLess(a, b) == Len(a) > Len(b) \/ (Len(a) = Len(b) /\ StrLess(a, b))

\* sortStrings: alphabetical order alone
sortStrings(ss) == SortSlice(ss, alphabeticalLess)

\* sortByLengthDesc: by length descending, ties alphabetically
sortByLengthDesc(ss) == SortSlice(ss, lengthDescLess)

\* ^\s*(e1|e2|...) over the escaped literals; with no literal left the
\* group is empty
statusPattern(escapedCheckboxes) ==
    [node |-> SeqOf(<<Bol, Star(Cls(SpaceChars)),
                      Cap(1, IF escapedCheckboxes = <<>> THEN SeqOf(<<>>)
                             ELSE AltOf([i \in 1..Len(escapedCheckboxes) |->
                                           SeqOf(CompileQuoted(escapedCheckboxes[i]))]))>>),
     ncap |-> 1]

\* \d{4}-\d{2}-\d{2}
datePattern ==
    SeqOf(<<Rep(Cls(Digits), 4), Cls({"-"}), Rep(Cls(Digits), 2), Cls({"-"}),
            Rep(Cls(Digits), 2)>>)

\* \d{2}:\d{2}
timePattern == SeqOf(<<Rep(Cls(Digits), 2), Cls({":"}), Rep(Cls(Digits), 2)>>)

\* (?:[^|\]]*\|)?(?:.*/)?
linkPrefixPattern ==
    SeqOf(<<Opt(SeqOf(<<Star(NotCls({"|", "]"})), Cls({"|"})>>)),
            Opt(SeqOf(<<Star(AnyChar), Cls({"/"})>>))>>)

\* <(\d+)m>
durationRe ==
    [node |-> SeqOf(<<Cls({"<"}), Cap(1, Plus(Cls(Digits))), Cls({"m"}), Cls({">"})>>),
     ncap |-> 1]

\* (\w+)\s+\[\[(?:[^|\]]*\|)?(?:.*/)?(\d{4}-\d{2}-\d{2})\]\]\s*(\d{2}:\d{2})?
markerRe ==
    [node |-> SeqOf(<<Cap(1, Plus(Cls(WordChars))), Plus(Cls(SpaceChars)), Lit(<<"[", "[">>),
                      linkPrefixPattern, Cap(2, datePattern), Lit(<<"]", "]">>),
                      Star(Cls(SpaceChars)), Opt(Cap(3, timePattern))>>),
     ncap |-> 3]

\* prefix([A-Za-z_][\w-]*)
tagPattern(tagPrefix) ==
    [node |-> SeqOf(<<SeqOf(CompileQuoted(QuoteMeta(tagPrefix))),
                      Cap(1, SeqOf(<<Cls(Lower \cup Upper \cup {"_"}),
                                     Star(Cls(WordChars \cup {"-"}))>>))>>),
     ncap |-> 1]

\* prefix\s*\w+\s+\[\[
markerStartPattern(markerPrefix) ==
    [node |-> SeqOf(<<SeqOf(CompileQuoted(QuoteMeta(markerPrefix))), Star(Cls(SpaceChars)),
                      Plus(Cls(WordChars)), Plus(Cls(SpaceChars)), Lit(<<"[", "[">>)>>),
     ncap |-> 0]

\* the date group between the default wrappers (@[[ and ]]...) or between
\* the two configured ones
datePatternOf(dateWrapper) ==
    IF Len(dateWrapper) = 2 /\ dateWrapper[1] # <<>> /\ dateWrapper[2] # <<>>
    THEN [node |-> SeqOf(<<SeqOf(CompileQuoted(QuoteMeta(dateWrapper[1]))),
                           linkPrefixPattern, Cap(1, datePattern),
                           Star(Cls(SpaceChars)), Opt(Cap(2, timePattern)),
                           SeqOf(CompileQuoted(QuoteMeta(dateWrapper[2])))>>),
          ncap |-> 2]
    ELSE [node |-> SeqOf(<<Lit(<<"(", "@", "[", "[">>),
                           linkPrefixPattern, Cap(1, datePattern), Lit(<<"]", "]">>),
                           Star(Cls(SpaceChars)), Opt(Cap(2, timePattern)), Cls({")"})>>),
          ncap |-> 2]

\* the checkbox map NewParseContext works with: the configured one or the
\* defaults, validated
checkboxOf(c) ==
    validateCheckbox(IF DOMAIN c.Checkbox = {} THEN defaultCheckbox ELSE c.Checkbox)

\* order is the order in which this run ranges over the checkbox map
NewParseContext(c, order) ==
    Bind(checkboxOf(c), LAMBDA checkbox :
    Bind(IF c.TagPrefix = <<>> THEN <<"#">> ELSE c.TagPrefix, LAMBDA tagPrefix :
    Bind(IF c.MarkerPrefix = <<>> THEN <<":", ":">> ELSE c.MarkerPrefix, LAMBDA markerPrefix :
        [checkbox      |-> checkbox,
         statusMap     |-> buildStatusMap(checkbox, order),
         statusRe      |-> statusPattern(sortByLengthDesc(
                               SetToSeq({QuoteMeta(cb) : cb \in Range(checkbox)}))),
         tagPrefix     |-> tagPrefix,
         tagRe         |-> tagPattern(tagPrefix),
         dateRe        |-> datePatternOf(c.DateWrapper),
         markerPrefix  |-> markerPrefix,
         markerRe      |-> markerRe,
         markerStartRe |-> markerStartPattern(markerPrefix),
         durationRe    |-> durationRe])))

\* the days of month m of year y
DaysIn(y, m) ==
    IF m = 2 THEN (IF y % 4 = 0 /\ (y % 100 # 0 \/ y % 400 = 0) THEN 29 ELSE 28)
    ELSE IF m \in {4, 6, 9, 11} THEN 30 ELSE 31

\* time.Parse("2006-01-02", s) on a string of the shape \d{4}-\d{2}-\d{2}:
\* month and day out of range are errors
timeParse(dateStr) ==
    Bind(AtoiDigits(SubSeq(dateStr, 1, 4), 0), LAMBDA y :
    Bind(AtoiDigits(SubSeq(dateStr, 6, 7), 0), LAMBDA m :
    Bind(AtoiDigits(SubSeq(dateStr, 9, 10), 0), LAMBDA d :
        IF m \in 1..12 /\ d >= 1 /\ d <= DaysIn(y, m)
        THEN [err |-> FALSE, day |-> DaysFromCivil(y, m, d)]
        ELSE [err |-> TRUE, day |-> 0])))

NoTask == Task(<<>>, 0, <<>>, NoDate, <<>>, <<>>, <<>>, <<>>, <<>>)

\* what ParseTask returns: err is "" and task the Task, or err names the
\* error returned; "panic" stands for a slice expression out of range
Parsed(task)  == [err |-> "", task |-> task]
Failed(error) == [err |-> error, task |-> NoTask]

\* step 2: the date group, [err, DueDate, DueTime, idx, full]
parseDateGroup(ctx, line) ==
    Bind(Find(ctx.dateRe, line), LAMBDA dateMatch :
        IF ~dateMatch.ok
        THEN [err |-> "", DueDate |-> NoDate, DueTime |-> <<>>, idx |-> -1, full |-> <<>>]
        ELSE Bind(Group(dateMatch, line, 1), LAMBDA dateStr :
             Bind(timeParse(dateStr), LAMBDA d :
                 IF dateStr = <<>>
                 THEN [err |-> "empty date", DueDate |-> NoDate, DueTime |-> <<>>,
                       idx |-> -1, full |-> <<>>]
                 ELSE IF d.err
                 THEN [err |-> "unparseable date", DueDate |-> NoDate, DueTime |-> <<>>,
                       idx |-> -1, full |-> <<>>]
                 ELSE [err |-> "", DueDate |-> DateOf(d.day),
                       DueTime |-> Group(dateMatch, line, 2),
                       idx |-> Index(line, Whole(dateMatch, line)),
                       full |-> Whole(dateMatch, line)])))

\* where the first real marker starts (0-based), -1 when there is none
markerStartOf(ctx, line) ==
    Bind(Find(ctx.markerStartRe, line), LAMBDA loc : IF loc.ok THEN loc.from - 1 ELSE -1)

\* step 4: split the marker region on the marker prefix and parse each
\* segment
parseMarkers(ctx, afterDateGroup) ==
    Bind(Split(afterDateGroup, ctx.markerPrefix), LAMBDA markerSegments :
    Bind(SelectSeq([i \in 1..Len(markerSegments) |->
                       Bind(TrimSpace(markerSegments[i]), LAMBDA seg :
                           [seg |-> seg,
                            mm |-> IF seg = <<>> THEN NoMatch ELSE Find(ctx.markerRe, seg)])],
                   LAMBDA x : x.mm.ok), LAMBDA kept :
        [i \in 1..Len(kept) |->
            Marker(Group(kept[i].mm, kept[i].seg, 1), Group(kept[i].mm, kept[i].seg, 2),
                   Group(kept[i].mm, kept[i].seg, 3))]))

\* step 5: every tag of the line
parseTags(ctx, line) ==
    Bind(FindAll(ctx.tagRe, line), LAMBDA allTags :
        [i \in 1..Len(allTags) |-> Group(allTags[i], line, 1)])

\* step 6 from the slice on: the duration once and all tags removed, trimmed
cleanBody(ctx, bodyPart, durMatch, line) ==
    TrimSpace(RemoveAll(ctx.tagRe,
        IF durMatch.ok
        THEN ReplaceFirst(bodyPart, <<"<">> \o Group(durMatch, line, 1) \o <<"m", ">">>, <<>>)
        ELSE bodyPart))

\* steps 2 to 6, for the line whose checkbox checkboxStr has status status
parseRest(match, ctx, line, checkboxStr, status) ==
    Bind(parseDateGroup(ctx, line), LAMBDA dg :
    Bind(Find(ctx.durationRe, line), LAMBDA durMatch :
    Bind(markerStartOf(ctx, line), LAMBDA markerStart :
    Bind(Index(line, checkboxStr) + Len(checkboxStr), LAMBDA checkboxEnd :
    Bind(IF dg.idx >= 0 THEN dg.idx
         ELSE IF markerStart >= 0 THEN markerStart ELSE Len(line), LAMBDA bodyEnd :
        IF dg.err # "" THEN Failed(dg.err)
        ELSE IF checkboxEnd > bodyEnd THEN Failed("panic")
        ELSE Parsed(Task(match.Path, match.LineNumber,
                 cleanBody(ctx, SubSeq(line, checkboxEnd + 1, bodyEnd), durMatch, line),
                 dg.DueDate, dg.DueTime,
                 IF durMatch.ok THEN Group(durMatch, line, 1) \o <<"m">> ELSE <<>>,
                 parseTags(ctx, line),
                 status,
                 parseMarkers(ctx,
                     IF dg.idx >= 0 THEN From(line, dg.idx + Len(dg.full) + 1)
                     ELSE IF markerStart >= 0 THEN From(line, markerStart + 1)
                     ELSE <<>>))))))))

ParseTask(match, ctx) ==
    Bind(TrimRightSet(TrimLeftSet(match.Text, {" ", "\t"}), {"\n", "\r"}), LAMBDA line :
    Bind(Find(ctx.statusRe, line), LAMBDA statusMatch :
        IF ~statusMatch.ok THEN Failed("no checkbox found")
        ELSE Bind(Group(statusMatch, line, 1), LAMBDA checkboxStr :
                 IF checkboxStr \notin DOMAIN ctx.statusMap THEN Failed("unknown checkbox")
                 ELSE parseRest(match, ctx, line, checkboxStr, ctx.statusMap[checkboxStr]))))

(***************************************************************************)
(* The parser called on one line                                           *)
(***************************************************************************)

MaxCheckboxes == 3

\* the status name of entry i of a checkbox configuration
StatusNames ==
    <<Str_open, Str_done, <<"b", "u", "l", "l", "e", "t">>, Str_partial, Str_irrelevant>>

\* the checkbox literals a configuration draws from: the empty one, a blank
\* one, and a chain of literals each a proper prefix of the next
CheckboxLiterals ==
    {<<>>, <<" ">>, <<"-", " ">>, <<"-", " ", "[">>, <<"-", " ", "[", " ", "]">>}

\* the Config whose checkbox map gives status StatusNames[i] the literal cs[i]
CheckboxConfig(cs) ==
    Config([n \in {StatusNames[i] : i \in 1..Len(cs)} |->
               cs[CHOOSE i \in 1..Len(cs) : StatusNames[i] = n]],
           <<>>, <<>>, <<>>)

\* the lines handed to the parser
Lines ==
    {<<>>,   \* a blank line
     <<"H", "i">>,   \* plain text
     <<"#", " ", "H">>,   \* a header
     <<" ", " ", " ", " ", "c", "o", "d", "e">>,   \* indented code
     <<"-", " ", "[", " ", "]", " ", "T">>,   \* an open task
     <<"\t", " ", "-", " ", "[", " ", "]", " ", "T">>,   \* an indented task
     <<"-", " ", "x">>,   \* a bullet
     <<"-", " ", "[", "x", "]", " ", "D", "\n">>,   \* a done task with its line break
     <<"-", " ", "[", "y">>,   \* a bullet that opens a bracket
     <<"-", " ", "[", " ", "]", " ", "T", " ", "(", "@", "[", "[", "2", "0", "2", "6",
       "-", "0", "2", "-", "1", "7", "]", "]", ")">>,   \* a dated task
     <<"-", " ", "[", " ", "]", " ", "T", " ", "(", "@", "[", "[", "2", "0", "2", "6",
       "-", "0", "2", "-", "3", "0", "]", "]", ")">>,   \* a task dated February 30
     <<"-", " ", "[", " ", "]", " ", "T", " ", "#", "w", " ", "<", "5", "m", ">", " ",
       ":", ":", "s", "t", "a", "r", "t", " ", "[", "[", "2", "0", "2", "6", "-", "0",
       "2", "-", "1", "7", "]", "]", " ", "0", "9", ":", "0", "0">>,   \* tag, duration, marker
     <<"-", " ", "[", " ", "]">>}   \* a checkbox and nothing else

InitParse ==
    /\ pc = "compile"
    /\ NoFiles
    /\ \E cs \in SeqsUpTo(CheckboxLiterals, MaxCheckboxes) : cfg = CheckboxConfig(cs)
    /\ \E text \in Lines : rawLine = RawMatch(<<"a">>, 1, text)
    /\ parseCtx = Idle /\ matches = Idle /\ parsed = Idle
    /\ specs = Idle /\ now = TestNow /\ weekStart = Monday /\ overlap = Idle
    /\ resolved = Idle /\ tasks = Idle /\ opts = Idle /\ report = Idle

CallNewParseContext ==
    /\ pc = "compile"
    /\ \E order \in MapOrders(DOMAIN checkboxOf(cfg)) : parseCtx' = NewParseContext(cfg, order)
    /\ pc' = "parse"
    /\ UNCHANGED <<fileVars, matches, cfg, rawLine, parsed, specs, now, weekStart, overlap, resolved, tasks,
                   opts, report>>

CallParseTask ==
    /\ pc = "parse"
    /\ parsed' = ParseTask(rawLine, parseCtx)
    /\ pc' = "done"
    /\ UNCHANGED <<fileVars, matches, cfg, parseCtx, rawLine, specs, now, weekStart, overlap, resolved, tasks,
                   opts, report>>

NextParse == CallNewParseContext \/ CallParseTask

SpecParse == InitParse /\ [][NextParse]_vars

(***************************************************************************)
(* Properties of the parsed line                                           *)
(***************************************************************************)

ParsedLine == pc = "done" /\ parsed # Idle

\* the checkbox map in force: the configured one, the defaults when none is configured
CheckboxInForce == IF DOMAIN cfg.Checkbox = {} THEN defaultCheckbox ELSE cfg.Checkbox

\* the line as the parser reads it: leading blanks and the trailing line break removed
LineRead == TrimRightSet(TrimLeftSet(rawLine.Text, {" ", "\t"}), {"\n", "\r"})

\* the line after its leading whitespace
LineAfterIndent == TrimLeftSet(LineRead, SpaceChars)

ProperPrefix(a, b) == IsPrefix(a, b) /\ Len(a) < Len(b)

\* the statuses configured with the literal lit
StatusesOf(lit) == {n \in DOMAIN CheckboxInForce : CheckboxInForce[n] = lit}

\* the body the parser extracts when the checkbox is the literal lit
BodyAfter(lit) ==
    LET checkboxEnd == (Len(LineRead) - Len(LineAfterIndent)) + Len(lit)
        dateIdx     == parseDateGroup(parseCtx, LineRead).idx
        markerStart == markerStartOf(parseCtx, LineRead)
        bodyEnd     == IF dateIdx >= 0 THEN dateIdx
                       ELSE IF markerStart >= 0 THEN markerStart ELSE Len(LineRead)
    IN  cleanBody(parseCtx, SubSeq(LineRead, checkboxEnd + 1, bodyEnd),
                  Find(parseCtx.durationRe, LineRead), LineRead)

RecognisedAs(lit) ==
    /\ parsed.err = ""
    /\ parsed.task.Status \in StatusesOf(lit)
    /\ parsed.task.Body = BodyAfter(lit)

\* the non-empty configured literals the line begins with after its indentation
LiteralsAtStart ==
    {CheckboxInForce[n] : n \in DOMAIN CheckboxInForce} \cap
        {lit \in CheckboxLiterals \cup {defaultCheckbox[n] : n \in DOMAIN defaultCheckbox} :
            lit # <<>> /\ IsPrefix(lit, LineAfterIndent)}

LongestAtStart == CHOOSE lit \in LiteralsAtStart : \A o \in LiteralsAtStart : Len(o) <= Len(lit)

CheckboxErrors == {"no checkbox found", "unknown checkbox"}

HasBlankLiteral == \E n \in DOMAIN cfg.Checkbox : TrimSpace(cfg.Checkbox[n]) = <<>>

\* the line, after optional leading whitespace, begins with a valid configured literal
BeginsWithValidLiteral ==
    \E n \in DOMAIN cfg.Checkbox :
        /\ TrimSpace(cfg.Checkbox[n]) # <<>>
        /\ \E k \in 0..Len(rawLine.Text) :
              /\ \A j \in 1..k : rawLine.Text[j] \in SpaceChars
              /\ IsPrefix(cfg.Checkbox[n], From(rawLine.Text, k + 1))

\* C2: when the configuration holds an empty or whitespace-only literal, that
\* entry is dropped, and every line that does not begin (after optional leading
\* whitespace) with a valid configured literal is rejected as a non-task.
C2_BlankLiteralNeverMatches ==
    (pc # "compile" /\ HasBlankLiteral) =>
        /\ \A n \in DOMAIN cfg.Checkbox :
              TrimSpace(cfg.Checkbox[n]) = <<>> => n \notin DOMAIN parseCtx.checkbox
        /\ (ParsedLine /\ ~BeginsWithValidLiteral) => parsed.err # ""

\* a plain-text line was rejected under a configuration that mixes a blank
\* literal with a valid one
C2_Witness ==
    /\ ParsedLine
    /\ HasBlankLiteral
    /\ \E n \in DOMAIN cfg.Checkbox : TrimSpace(cfg.Checkbox[n]) # <<>>
    /\ rawLine.Text = <<"H", "i">>
    /\ parsed.err = "no checkbox found"

(***************************************************************************)
(* Report lines (go/format.go, formatTaskLine) and their re-reading        *)
(***************************************************************************)

\* the decimal digits in order
DigitChars == <<"0", "1", "2", "3", "4", "5", "6", "7", "8", "9">>

\* %d of a non-negative int
RECURSIVE Itoa(_)
Itoa(n) == IF n < 10 THEN <<DigitChars[n + 1]>> ELSE Itoa(n \div 10) \o <<DigitChars[(n % 10) + 1]>>

\* the decimal digits of n, zero-padded to width w
RECURSIVE ZeroPad(_, _)
ZeroPad(n, w) == IF w = 0 THEN <<>> ELSE ZeroPad(n \div 10, w - 1) \o <<DigitChars[(n % 10) + 1]>>

\* Time.Format("2006-01-02")
FormatDate(day) ==
    Bind(CivilFromDays(day), LAMBDA c :
        ZeroPad(c.y, 4) \o <<"-">> \o ZeroPad(c.m, 2) \o <<"-">> \o ZeroPad(c.d, 2))

\* strings.Repeat(" ", n)
Spaces(n) == [i \in 1..n |-> " "]

\* the tags column: a space, then the tags, each behind "#", separated by spaces
RECURSIVE writeTags(_, _)
writeTags(tags, i) ==
    IF i > Len(tags) THEN <<>>
    ELSE (IF i > 1 THEN <<" ">> ELSE <<>>) \o <<"#">> \o tags[i] \o writeTags(tags, i + 1)

\* the markers: " ::kind [[date]]" and the time when there is one
RECURSIVE writeMarkers(_, _)
writeMarkers(markers, i) ==
    IF i > Len(markers) THEN <<>>
    ELSE <<" ", ":", ":">> \o markers[i].Kind \o <<" ", "[", "[">> \o markers[i].Date
         \o <<"]", "]">>
         \o (IF markers[i].Time # <<>> THEN <<" ">> \o markers[i].Time ELSE <<>>)
         \o writeMarkers(markers, i + 1)

formatTaskLine(t, o) ==
    t.FilePath \o <<":">> \o Itoa(t.LineNumber) \o <<":", "1", ":">>
    \o (IF t.DueDate.set THEN <<"\t", "[", "[">> \o FormatDate(t.DueDate.day) \o <<"]", "]">>
        ELSE <<"\t">> \o Spaces(10))
    \o (IF t.DueTime # <<>> THEN <<" ", "|", " ">> \o t.DueTime \o <<" ", "|">>
        ELSE <<"\t", " ", "|">> \o Spaces(7) \o <<"|">>)
    \o (IF t.Duration # <<>>
        THEN Spaces(IF 4 - Len(t.Duration) < 0 THEN 0 ELSE 4 - Len(t.Duration))
             \o t.Duration \o <<" ", "|">>
        ELSE Spaces(5) \o <<"|">>)
    \o <<"\t", " ">> \o t.Body \o <<" ", "\t">>
    \o (IF Len(t.Tags) > 0 THEN <<" ">> \o writeTags(t.Tags, 1) ELSE <<>>)
    \o (IF o.ShowMarkers THEN writeMarkers(t.Markers, 1) ELSE <<>>)

\* step 4 of ParseTask up to the split: the text the markers are read from
afterDateGroup(ctx, line) ==
    Bind(parseDateGroup(ctx, line), LAMBDA dg :
    Bind(markerStartOf(ctx, line), LAMBDA markerStart :
        IF dg.idx >= 0 THEN From(line, dg.idx + Len(dg.full) + 1)
        ELSE IF markerStart >= 0 THEN From(line, markerStart + 1)
        ELSE <<>>))

MaxTags == 2
MaxMarkers == 1

\* start [[2026-02-17]] 15:00 and stop [[2026-02-17]]
MarkerChoices ==
    {Marker(<<"s", "t", "a", "r", "t">>, <<"2", "0", "2", "6", "-", "0", "2", "-", "1", "7">>,
            <<"1", "5", ":", "0", "0">>),
     Marker(<<"s", "t", "o", "p">>, <<"2", "0", "2", "6", "-", "0", "2", "-", "1", "7">>, <<>>)}

\* the configuration with tag prefix "+" and marker prefix ">>"
PlusConfig == Config(<<>>, <<"+">>, <<">", ">">>, <<>>)

\* the configuration that leaves every prefix to its default
DefaultConfig == Config(<<>>, <<>>, <<>>, <<>>)

InitFormatLine ==
    /\ pc = "format"
    /\ NoFiles
    /\ cfg \in {PlusConfig, DefaultConfig}
    /\ \E tags \in SeqsUpTo({<<"w", "o", "r", "k">>, <<"a", "_", "b">>}, MaxTags),
          markers \in SeqsUpTo(MarkerChoices, MaxMarkers),
          due \in {NoDate, DateOf(Today)},
          duration \in {<<>>, <<"5", "m">>, <<"9", "0", "m">>, <<"1", "0", "0", "0", "m">>},
          showMarkers \in BOOLEAN :
          /\ tasks = <<Task(<<"t", ".", "m", "d">>, 12, <<"T", "a", "s", "k">>, due, <<>>,
                            duration, tags, Str_open, markers)>>
          /\ opts = FormatOpts(showMarkers, FALSE, <<>>, <<>>, "")
    /\ parseCtx = Idle /\ matches = Idle /\ rawLine = Idle /\ parsed = Idle
    /\ specs = Idle /\ now = TestNow /\ weekStart = Monday /\ overlap = Idle
    /\ resolved = Idle /\ report = Idle

CallFormatTaskLine ==
    /\ pc = "format"
    /\ report' = formatTaskLine(tasks[1], opts)
    /\ pc' = "compile"
    /\ UNCHANGED <<fileVars, matches, cfg, parseCtx, rawLine, parsed, specs, now, weekStart, overlap, resolved,
                   tasks, opts>>

\* steps 4 and 5 of ParseTask on the report line
CallExtract ==
    /\ pc = "parse"
    /\ report # Idle
    /\ parsed' = [Tags    |-> parseTags(parseCtx, report),
                  Markers |-> parseMarkers(parseCtx, afterDateGroup(parseCtx, report))]
    /\ pc' = "done"
    /\ UNCHANGED <<fileVars, matches, cfg, parseCtx, rawLine, specs, now, weekStart, overlap, resolved, tasks,
                   opts, report>>

NextFormatLine == CallFormatTaskLine \/ CallNewParseContext \/ CallExtract

SpecFormatLine == InitFormatLine /\ [][NextFormatLine]_vars

\* C10: the report line of a task, written under tag prefix "+" and marker
\* prefix ">>", gives back exactly the task's tags, and its markers when
\* markers are shown, to the extraction that uses the same configuration.
C10_PrefixRoundTrip ==
    (pc = "done" /\ cfg = PlusConfig /\ report # Idle) =>
        /\ parsed.Tags = tasks[1].Tags
        /\ opts.ShowMarkers => parsed.Markers = tasks[1].Markers

\* the positions of the pipes of the report line
PipesOf(line) == {i \in 1..Len(line) : line[i] = "|"}

\* the position of the k-th pipe of the line
PipeAt(line, k) ==
    CHOOSE i \in PipesOf(line) : Cardinality({j \in PipesOf(line) : j < i}) = k - 1

\* C19: in the line written for a task the duration column, the text
\* between the second pipe and the third, is five characters wide whatever
\* the duration of the task is.
C19_DurationColumnIsFive ==
    (report # Idle) => PipeAt(report, 3) - PipeAt(report, 2) - 1 = 5

(***************************************************************************)
(* The parser called on lines put together from a body, date groups and    *)
(* markers                                                                 *)
(***************************************************************************)

\* what follows the checkbox
BodyParts ==
    {<<" ", "T">>,   \* a word
     <<" ", "T", " ", "#", "w">>,   \* a tag
     <<" ", "T", " ", "<", "5", "m", ">">>,   \* a duration
     <<" ", "T", " ", "<", "5", "m", ">", " ", "<", "1", "0", "m", ">">>,   \* two durations
     <<" ", "a", ":", ":", "b", " ", "c">>,   \* a namespace path
     <<" ", "s", "e", "e", " ", "h", "t", "t", "p", ":", "/", "/", "x">>,   \* a URL
     <<" ", "-", " ", "[", " ", "]", " ", "T">>,   \* a second checkbox
     <<" ", "T", " ", ":", ":", "x">>,   \* a marker prefix and a word
     <<" ", "s", "t", "d", ":", ":", "v", "e", "c", " ", "[", "[", "n", "]", "]">>}   \* a path, then a link

\* the date groups of the line
DateParts ==
    {<<>>,   \* none
     <<" ", "(", "@", "[", "[", "2", "0", "2", "6", "-", "0", "2", "-", "1", "7", "]", "]",
       ")">>,   \* one
     <<" ", "(", "@", "[", "[", "2", "0", "2", "6", "-", "0", "2", "-", "1", "7", "]", "]",
       ")", " ", "(", "@", "[", "[", "2", "0", "2", "6", "-", "0", "3", "-", "0", "1", "]",
       "]", ")">>,   \* two
     <<" ", "(", "@", "[", "[", "2", "0", "2", "6", "-", "0", "2", "-", "1", "7", "]", "]",
       " ", "0", "9", ":", "0", "0", ")", " ", "(", "@", "[", "[", "2", "0", "2", "6", "-",
       "0", "3", "-", "0", "1", "]", "]", " ", "1", "0", ":", "0", "0", ")">>,   \* two with times
     <<" ", "(", "@", "[", "[", "2", "0", "2", "6", "-", "0", "2", "-", "1", "7", "]", "]",
       ")", " ", "(", "@", "[", "[", "d", "/", "2", "0", "2", "6", "-", "0", "3", "-", "0",
       "1", "]", "]", ")">>}   \* the second one linked through a path

\* the markers of the line
MarkerParts ==
    {<<>>,   \* none
     <<" ", ":", ":", "s", "t", "a", "r", "t", " ", "[", "[", "2", "0", "2", "6", "-", "0",
       "2", "-", "1", "7", "]", "]", " ", "0", "9", ":", "0", "0">>,   \* one
     <<" ", ":", ":", "s", "t", "a", "r", "t", " ", "[", "[", "2", "0", "2", "6", "-", "0",
       "2", "-", "1", "7", "]", "]", " ", ":", ":", "s", "t", "o", "p", " ", "[", "[", "2",
       "0", "2", "6", "-", "0", "2", "-", "1", "8", "]", "]">>}   \* two

InitParseLine ==
    /\ pc = "compile"
    /\ NoFiles
    /\ cfg \in {DefaultConfig, PlusConfig}
    /\ \E body \in BodyParts, dates \in DateParts, markers \in MarkerParts :
          rawLine = RawMatch(<<"a">>, 1,
                             <<"-", " ", "[", " ", "]">> \o body \o dates \o markers)
    /\ parseCtx = Idle /\ matches = Idle /\ parsed = Idle
    /\ specs = Idle /\ now = TestNow /\ weekStart = Monday /\ overlap = Idle
    /\ resolved = Idle /\ tasks = Idle /\ opts = Idle /\ report = Idle

SpecParseLine == InitParseLine /\ [][NextParse]_vars

(***************************************************************************)
(* Properties of the parsed composed line                                  *)
(***************************************************************************)

\* one date group between the default wrappers: (@[[ an optional alias or
\* path, the date, ]] an optional time, )
DateGroupShape ==
    [node |-> SeqOf(<<Lit(<<"(", "@", "[", "[">>),
                      Opt(SeqOf(<<Star(NotCls({"]"})), Cls({"|", "/"})>>)),
                      Cap(1, datePattern), Lit(<<"]", "]">>),
                      Star(Cls(SpaceChars)), Opt(Cap(2, timePattern)), Cls({")"})>>),
     ncap |-> 2]

\* where the date groups of the line begin
DateGroupStarts == {i \in 1..Len(LineRead) : MatchAt(DateGroupShape, LineRead, i).ok}

FirstDateGroup ==
    MatchAt(DateGroupShape, LineRead,
            CHOOSE i \in DateGroupStarts : \A j \in DateGroupStarts : i <= j)

\* the body read from the end of the checkbox of the parsed status up to offset upTo
BodyUpTo(upTo) ==
    cleanBody(parseCtx,
              SubSeq(LineRead,
                     (Len(LineRead) - Len(LineAfterIndent))
                         + Len(parseCtx.checkbox[parsed.task.Status]) + 1,
                     upTo),
              Find(parseCtx.durationRe, LineRead), LineRead)

\* C11: a line with two or more date groups that parses has the due date and
\* the due time of its first date group, and its body ends where that group
\* begins.
C11_FirstDateGroupWins ==
    (ParsedLine /\ Cardinality(DateGroupStarts) >= 2 /\ parsed.err = "") =>
        /\ parsed.task.DueDate = DateOf(timeParse(Group(FirstDateGroup, LineRead, 1)).day)
        /\ parsed.task.DueTime = Group(FirstDateGroup, LineRead, 2)
        /\ parsed.task.Body = BodyUpTo(FirstDateGroup.from - 1)

\* C12: the body of a parsed line holds no configured checkbox literal, no tag
\* token, no duration token <Nm> and no marker segment.
C12_BodyIsClean ==
    (ParsedLine /\ parsed.err = "") =>
        /\ \A n \in DOMAIN parseCtx.checkbox :
              Index(parsed.task.Body, parseCtx.checkbox[n]) = -1
        /\ ~Find(parseCtx.tagRe, parsed.task.Body).ok
        /\ ~Find(parseCtx.durationRe, parsed.task.Body).ok
        /\ ~Find(parseCtx.markerStartRe, parsed.task.Body).ok

\* a real marker behind the prefix: the prefix, a keyword, then [[ an
\* optional alias or path, a date, ]]
RealMarkerShape(prefix) ==
    [node |-> SeqOf(<<Lit(prefix), Star(Cls(SpaceChars)), Plus(Cls(WordChars)),
                      Plus(Cls(SpaceChars)), Lit(<<"[", "[">>),
                      Opt(SeqOf(<<Star(NotCls({"]"})), Cls({"|", "/"})>>)),
                      datePattern, Lit(<<"]", "]">>)>>),
     ncap |-> 0]

\* where the real markers of the line begin
RealMarkerStarts ==
    {i \in 1..Len(LineRead) :
        MatchAt(RealMarkerShape(parseCtx.markerPrefix), LineRead, i).ok}

\* the offset at which the first real marker begins, the length of the line without one
FirstRealMarker ==
    IF RealMarkerStarts = {} THEN Len(LineRead)
    ELSE (CHOOSE i \in RealMarkerStarts : \A j \in RealMarkerStarts : i <= j) - 1

\* C13: a parsed line without a date group has the body that runs up to its
\* first real marker and one marker for each real marker; a marker prefix in
\* ordinary text ends no body and yields no marker.
C13_BodyRunsToFirstRealMarker ==
    (ParsedLine /\ parsed.err = "" /\ DateGroupStarts = {}) =>
        /\ parsed.task.Body = BodyUpTo(FirstRealMarker)
        /\ Len(parsed.task.Markers) = Cardinality(RealMarkerStarts)

\* C14: the status of a parsed line is the alphabetically earliest of the
\* status names configured with the literal the line starts with, in whatever
\* order the run ranged over the checkbox map.
C14_EarliestNameWins ==
    (ParsedLine /\ parsed.err = "" /\ LiteralsAtStart # {}) =>
        /\ parsed.task.Status \in StatusesOf(LongestAtStart)
        /\ \A n \in StatusesOf(LongestAtStart) :
              n = parsed.task.Status \/ StrLess(parsed.task.Status, n)

\* three names share the literal of a parsed line and the line has the
\* earliest of them, which is not the first one configured
C14_Witness ==
    /\ ParsedLine
    /\ parsed.err = ""
    /\ LiteralsAtStart # {}
    /\ Cardinality(StatusesOf(LongestAtStart)) = 3
    /\ parsed.task.Status # StatusNames[1]
    /\ \A n \in StatusesOf(LongestAtStart) :
          n = parsed.task.Status \/ StrLess(parsed.task.Status, n)

(***************************************************************************)
(* The batch parser (go/parse.go, ParseTasks)                              *)
(***************************************************************************)

\* the loop of ParseTasks from line i on; a slice expression out of range in
\* ParseTask ends the whole call in a panic
RECURSIVE parseTasksLoop(_, _, _, _)
parseTasksLoop(ms, ctx, i, acc) ==
    IF i > Len(ms) THEN [panic |-> FALSE, tasks |-> acc]
    ELSE Bind(ParseTask(ms[i], ctx), LAMBDA r :
             IF r.err = "panic" THEN [panic |-> TRUE, tasks |-> <<>>]
             ELSE IF r.err # "" THEN parseTasksLoop(ms, ctx, i + 1, acc)
             ELSE parseTasksLoop(ms, ctx, i + 1, Append(acc, r.task)))

ParseTasks(ms, ctx) == parseTasksLoop(ms, ctx, 1, <<>>)

MaxLines == 2

\* the texts of the lines of a batch
BatchTexts ==
    {<<"-", " ", "[", " ", "]", " ", "A", " ", "(", "@", "[", "[", "2", "0", "2", "6", "-",
       "0", "2", "-", "1", "7", "]", "]", ")">>,   \* a dated task
     <<"n", "o", "t", " ", "a", " ", "t", "a", "s", "k">>,   \* plain text
     <<"-", " ", "[", " ", "]", " ", "B">>,   \* an undated task
     <<"-", " ", "[", " ", "]", " ", "C", " ", "(", "@", "[", "[", "2", "0", "2", "6", "-",
       "0", "2", "-", "3", "0", "]", "]", ")">>,   \* a task dated February 30
     <<"-", " ", "x", " ", "[", "[", "2", "0", "2", "6", "-", "0", "2", "-", "1", "7", "]",
       "]">>,   \* a bullet with a dated link
     <<"-", " ", "y">>}   \* a bullet

\* the checkbox map {open: "- [ ]", bullet: "- "} with "-" as the marker prefix
DashConfig ==
    Config((Str_open :> <<"-", " ", "[", " ", "]">>)
               @@ (<<"b", "u", "l", "l", "e", "t">> :> <<"-", " ">>),
           <<>>, <<"-">>, <<>>)

InitParseTasks ==
    /\ pc = "compile"
    /\ NoFiles
    /\ cfg \in {DefaultConfig, DashConfig}
    /\ \E texts \in SeqsUpTo(BatchTexts, MaxLines) :
          matches = [i \in 1..Len(texts) |-> RawMatch(<<"a">>, i, texts[i])]
    /\ parseCtx = Idle /\ rawLine = Idle /\ parsed = Idle
    /\ specs = Idle /\ now = TestNow /\ weekStart = Monday /\ overlap = Idle
    /\ resolved = Idle /\ tasks = Idle /\ opts = Idle /\ report = Idle

\* pc is "panic" when the call ended in a panic
CallParseTasks ==
    /\ pc = "parse"
    /\ matches # Idle
    /\ \E r \in {ParseTasks(matches, parseCtx)} :
          /\ pc' = IF r.panic THEN "panic" ELSE "done"
          /\ tasks' = IF r.panic THEN tasks ELSE r.tasks
    /\ UNCHANGED <<fileVars, matches, cfg, parseCtx, rawLine, parsed, specs, now, weekStart, overlap,
                   resolved, opts, report>>

NextParseTasks == CallNewParseContext \/ CallParseTasks

SpecParseTasks == InitParseTasks /\ [][NextParseTasks]_vars

\* the lines of the batch that parse, in input order
ParsingLines == SelectSeq(matches, LAMBDA m : ParseTask(m, parseCtx).err = "")

\* C15: ParseTasks always returns, and returns the tasks of exactly the lines
\* that parse, in input order.
C15_ParseTasksSkipsFailures ==
    (matches # Idle /\ pc \notin {"compile", "parse"}) =>
        /\ pc = "done"
        /\ tasks = [i \in 1..Len(ParsingLines) |-> ParseTask(ParsingLines[i], parseCtx).task]

\* C16: the horizons are listed by their order values (the explicit order of
\* the spec, its input position without one, undated specs behind the dated
\* ones by default): along the returned list the order never decreases.
C16_ListedByOrder ==
    Resolved =>
        \A a \in 1..Len(resolved.list), b \in 1..Len(resolved.list) :
            a < b => resolved.list[a].Order <= resolved.list[b].Order

(***************************************************************************)
(* The horizon resolver called at other instants and week starts           *)
(***************************************************************************)

\* the times of day of an instant: midnight and one second before the next
TimesOfDay == {0, 1}

\* the instants of the seven days that begin with TestNow
Instants == {[day |-> TestNow.day + k, tod |-> t] : k \in 0..6, t \in TimesOfDay}

\* a day offset, the week keyword and an undated bucket
WeekSpecChoices ==
    {[After |-> AfterInt(1), Undated |-> FALSE, Order |-> NoOrder],
     [After |-> AfterString(Str_end_of_week), Undated |-> FALSE, Order |-> NoOrder],
     [After |-> AfterNil, Undated |-> TRUE, Order |-> NoOrder]}

InitResolveAt ==
    /\ pc = "call"
    /\ NoFiles
    /\ cfg = Idle /\ parseCtx = Idle /\ matches = Idle /\ rawLine = Idle /\ parsed = Idle
    /\ tasks = Idle /\ opts = Idle /\ report = Idle
    /\ now \in Instants
    /\ weekStart \in 0..6
    /\ \E cs \in SeqsUpTo(WeekSpecChoices, MaxSpecs) : specs = SpecList(cs)
    /\ overlap \in {"sorted", "first_match"}
    /\ resolved = Idle

SpecResolveAt == InitResolveAt /\ [][CallResolveHorizons]_vars

\* C17: the list ResolveHorizons returned is the list it returns for the
\* same specs, week start and overlap policy at every instant of the same
\* calendar day, the instant of the call itself included.
C17_SameDaySameList ==
    Resolved =>
        \A t \in TimesOfDay :
            ResolveHorizons(specs, [day |-> now.day, tod |-> t], weekStart, overlap).list
                = resolved.list

C17_Witness ==
    /\ Resolved
    /\ now.tod # 0
    /\ \E i \in 1..Len(resolved.list) : ~resolved.list[i].Undated
    /\ \E i \in 1..Len(specs) : specs[i].After = AfterString(Str_end_of_week)

\* the last day of the week that starts on weekStart
LastWeekday == (weekStart + 6) % 7

\* the day the current week ends on: the first day from today on that is a
\* LastWeekday, or the one a week later when today is itself that day
CurrentWeekEnd ==
    IF Weekday(now.day) = LastWeekday
    THEN now.day + 7
    ELSE CHOOSE d \in now.day..(now.day + 6) : Weekday(d) = LastWeekday

\* the resolved horizons that come from an end_of_week spec
WeekHorizons ==
    {i \in 1..Len(resolved.list) :
        \E j \in 1..Len(specs) :
            /\ specs[j].After = AfterString(Str_end_of_week)
            /\ ~specs[j].Undated
            /\ specs[j].Label = resolved.list[i].Label}

TaskPool ==
    {Task(path, line, body, due, <<>>, <<>>, <<>>, <<"o", "p", "e", "n">>, <<>>) :
        path \in {<<"a">>, <<"b">>}, line \in {1, 2}, body \in {<<"T">>, <<"U">>},
        due \in {NoDate, DateOf(Today - 1), DateOf(Today)}}

\* horizons for what is overdue, for what is due from today on, and for
\* what has no date
PoolHorizons ==
    <<ResolvedHorizon("# A", AddDate(Today, -100, 0, 0), FALSE, 0),
      ResolvedHorizon("# B", Today, FALSE, 1),
      ResolvedHorizon("# C", ZeroTime, TRUE, 2)>>

InitFormatAnyOrder ==
    /\ pc = "call"
    /\ NoFiles
    /\ cfg = Idle /\ parseCtx = Idle /\ matches = Idle /\ rawLine = Idle /\ parsed = Idle
    /\ specs = Idle /\ weekStart = Monday /\ overlap = Idle /\ resolved = Idle
    /\ now = TestNow
    /\ tasks \in SeqsUpTo(TaskPool, MaxTasks)
    /\ \E ov \in {"sorted", "first_match", "narrowest"} :
          opts = FormatOpts(FALSE, FALSE, <<>>, PoolHorizons, ov)
    /\ report = Idle

SpecFormatAnyOrder == InitFormatAnyOrder /\ [][CallFormatTaskfile]_vars

\* the text of the report r: its lines as FormatTaskfile writes them
ReportText(r, o) ==
    IF r.panic THEN <<"panic">>
    ELSE [k \in 1..Len(r.lines) |->
            CASE r.lines[k].kind = "label" -> r.lines[k].text
              [] r.lines[k].kind = "blank" -> ""
              [] OTHER -> formatTaskLine(r.lines[k].task, o)]

\* the tasks handed over in the order p
Reordered(p) == [i \in 1..Len(tasks) |-> tasks[p[i]]]

\* every order of the tasks gives the text of the report
SameTextInEveryOrder ==
    \A p \in Permutations(1..Len(tasks)) :
        ReportText(FormatTaskfile(Reordered(p), now, opts), opts) = ReportText(report, opts)

\* two tasks the sorts of FormatTaskfile cannot tell apart: both undated or
\* due the same day, in the same file on the same line
SameSortKey(a, b) ==
    /\ a.DueDate = b.DueDate
    /\ a.FilePath = b.FilePath
    /\ a.LineNumber = b.LineNumber

\* tasks with the same sort key are the same task
KeysTellTasksApart ==
    \A i, j \in 1..Len(tasks) : SameSortKey(tasks[i], tasks[j]) => tasks[i] = tasks[j]

buildBuckets(nw) ==
    LET today == extractDate(nw)
    IN  << [Label |-> "# Overdue", Cutoff |-> today - 100 * 365],
           [Label |-> "# Today", Cutoff |-> today],
           [Label |-> "# Tomorrow", Cutoff |-> today + 1],
           [Label |-> "# This Week", Cutoff |-> today + 2],
           [Label |-> "# This Month", Cutoff |-> today + 8],
           [Label |-> "# This Year", Cutoff |-> today + 31],
           [Label |-> "# Far Off", Cutoff |-> today + 366] >>

\* idx is 0-based, as in the source
inBucket(date, idx, buckets) ==
    IF idx = Len(buckets) - 1
    THEN date > buckets[idx + 1].Cutoff
    ELSE (date = buckets[idx + 1].Cutoff \/ date > buckets[idx + 1].Cutoff)
         /\ date < buckets[idx + 2].Cutoff

RECURSIVE bucketLoop(_, _, _, _, _, _)
\* the loop over the sorted dated tasks of the hardcoded report
bucketLoop(dated, k, buckets, interval0, lastInterval, out) ==
    IF k > Len(dated) THEN out
    ELSE Bind(extractDate(dated[k].DueDate), LAMBDA date :
         Bind(LET hits == {i \in interval0..(Len(buckets) - 1) : inBucket(date, i, buckets)}
              IN  IF hits = {} THEN interval0 ELSE CHOOSE i \in hits : \A j \in hits : i <= j,
              LAMBDA interval :
             bucketLoop(dated, k + 1, buckets, interval, interval,
                 Append(IF interval # lastInterval
                        THEN (IF lastInterval # -1 THEN Append(out, BlankLine) ELSE out)
                             \o <<LabelLine(buckets[interval + 1].Label, interval)>>
                        ELSE out,
                        TaskLine(dated[k])))))

\* FormatTaskfile of the hardcoded report
FormatTaskfileBuckets(ts, nw, o) ==
    Bind(IF Len(o.TagFilter) > 0
         THEN SelectSeq(ts, LAMBDA t : taskMatchesTags(t, o.TagFilter)) ELSE ts, LAMBDA filtered :
    Bind(SortSlice(SelectSeq(filtered, LAMBDA t : t.DueDate.set), datedLess), LAMBDA dated :
    Bind(SortSlice(SelectSeq(filtered, LAMBDA t : ~t.DueDate.set), undatedLess), LAMBDA undated :
    Bind(bucketLoop(dated, 1, buildBuckets(nw), 0, -1, <<>>), LAMBDA body :
        IF Len(undated) > 0
        THEN [panic |-> FALSE,
              lines |-> (IF Len(body) > 0 THEN Append(body, BlankLine) ELSE body)
                        \o <<LabelLine("# Someday", -1)>>
                        \o [i \in 1..Len(undated) |-> TaskLine(undated[i])]]
        ELSE [panic |-> FALSE, lines |-> body]))))

\* days from today a task is due: on each side of every default cutoff
DueOffsets == {-36526, -1, 0, 1, 2, 8, 31, 365, 366, 367}

\* the tasks of the default report: task k is line k of one file, dated or
\* undated, tagged or not
DefaultTaskChoices ==
    {[due |-> d, tags |-> g] :
        d \in {DateOf(Today + k) : k \in DueOffsets} \cup {NoDate},
        g \in {<<>>, <<<<"w">>>>}}

InitFormatDefault ==
    /\ pc = "call"
    /\ NoFiles
    /\ cfg = Idle /\ parseCtx = Idle /\ matches = Idle /\ rawLine = Idle /\ parsed = Idle
    /\ specs = Idle /\ weekStart = Monday /\ overlap = Idle /\ resolved = Idle
    /\ now \in {TestNow, [day |-> TestNow.day, tod |-> 1]}
    /\ \E cs \in SeqsUpTo(DefaultTaskChoices, MaxTasks) :
          tasks = [k \in 1..Len(cs) |->
                      Task(<<"a">>, k, <<"T">>, cs[k].due, <<>>, <<>>, cs[k].tags,
                           <<"o", "p", "e", "n">>, <<>>)]
    /\ \E filter \in {<<>>, <<<<"w">>>>} :
          opts = FormatOpts(FALSE, FALSE, filter, <<>>, "")
    /\ report = Idle

SpecFormatDefault == InitFormatDefault /\ [][CallFormatTaskfile]_vars

\* C21: without configured horizons the text of the report is the text the
\* report builder with the seven hardcoded buckets and "# Someday" writes
\* for the same tasks, instant and options.
C21_DefaultsMatchBuckets ==
    (pc = "done" /\ Len(opts.Horizons) = 0) =>
        ReportText(report, opts) = ReportText(FormatTaskfileBuckets(tasks, now, opts), opts)

(***************************************************************************)
(* File mutations (go/mutate.go) and the marker commands (main.go)         *)
(***************************************************************************)

Newline == <<"\n">>

RECURSIVE Join(_, _)
\* strings.Join
Join(ss, sep) ==
    IF Len(ss) = 0 THEN <<>>
    ELSE IF Len(ss) = 1 THEN ss[1]
    ELSE ss[1] \o sep \o Join(Tail(ss), sep)

\* strings.Contains
HasSub(s, sub) == Index(s, sub) >= 0

\* Time.Format("15:04") of the two times of day of the model
FormatClock(nw) == IF nw.tod = 0 THEN <<"0", "0", ":", "0", "0">> ELSE <<"2", "3", ":", "5", "9">>

\* state.go FormatMarker: "::%-s [[%s]] %s "
FormatMarker(kind, nw) ==
    <<":", ":">> \o kind \o <<" ", "[", "[">> \o FormatDate(nw.day) \o <<"]", "]", " ">>
    \o FormatClock(nw) \o <<" ">>

\* the result of a command: the error returned and the bytes of the file
Wrote(data)  == [err |-> FALSE, data |-> data]
Refused(data) == [err |-> TRUE, data |-> data]

\* the package-level dateRe of parse.go: the date group of the default syntax
dateRe == datePatternOf(<<>>)

\* mutate.go AppendToLine, from the read of the file on
AppendToLine(data, lineNumber, text) ==
    Bind(Split(data, Newline), LAMBDA lines :
        IF lineNumber - 1 < 0 \/ lineNumber - 1 >= Len(lines) THEN Refused(data)
        ELSE Wrote(Join([lines EXCEPT ![lineNumber] =
                            TrimRightSet(@, {" ", "\t"}) \o <<" ">> \o text], Newline)))

\* a ChangeCheckbox without the two checks for empty strings
ChangeCheckboxUnchecked(data, lineNumber, from, to) ==
    Bind(Split(data, Newline), LAMBDA lines :
        IF lineNumber - 1 < 0 \/ lineNumber - 1 >= Len(lines) THEN Refused(data)
        ELSE Wrote(Join([lines EXCEPT ![lineNumber] = ReplaceFirst(@, from, to)], Newline)))

\* mutate.go ChangeCheckbox
ChangeCheckbox(data, lineNumber, from, to) ==
    IF from = <<>> THEN Refused(data)
    ELSE IF to = <<>> THEN Refused(data)
    ELSE Bind(Split(data, Newline), LAMBDA lines :
        IF lineNumber - 1 < 0 \/ lineNumber - 1 >= Len(lines) THEN Refused(data)
        ELSE Wrote(Join([lines EXCEPT ![lineNumber] = ReplaceFirst(@, from, to)], Newline)))

\* \s*::kind\s+\[\[\d{4}-\d{2}-\d{2}\]\]\s*(\d{2}:\d{2})?
removeMarkerPattern(kind) ==
    [node |-> SeqOf(<<Star(Cls(SpaceChars)), Lit(<<":", ":">>),
                      SeqOf(CompileQuoted(QuoteMeta(kind))), Plus(Cls(SpaceChars)),
                      Lit(<<"[", "[">>), datePattern, Lit(<<"]", "]">>),
                      Star(Cls(SpaceChars)), Opt(Cap(1, timePattern))>>),
     ncap |-> 1]

\* mutate.go RemoveLastMarker
RemoveLastMarker(data, lineNumber, kind) ==
    Bind(Split(data, Newline), LAMBDA lines :
        IF lineNumber - 1 < 0 \/ lineNumber - 1 >= Len(lines) THEN Refused(data)
        ELSE Bind(FindAll(removeMarkerPattern(kind), lines[lineNumber]), LAMBDA locs :
            IF Len(locs) = 0 THEN Wrote(data)
            ELSE Bind(locs[Len(locs)], LAMBDA last :
                Wrote(Join([lines EXCEPT ![lineNumber] =
                               TrimRightSet(SubSeq(@, 1, last.from - 1) \o From(@, last.to),
                                            {" ", "\t"})], Newline)))))

Str_original   == <<"o", "r", "i", "g", "i", "n", "a", "l">>
Str_deferral   == <<"d", "e", "f", "e", "r", "r", "a", "l">>

\* main.go cmdDefer, from the read of the file on
cmdDefer(data, lineNum, nw) ==
    Bind(Split(data, Newline), LAMBDA lines :
        IF lineNum - 1 < 0 \/ lineNum - 1 >= Len(lines) THEN Refused(data)
        ELSE Bind(lines[lineNum], LAMBDA line0 :
             Bind(IF ~HasSub(line0, <<":", ":">> \o Str_original)
                  THEN Bind(Find(dateRe, line0), LAMBDA dateMatch :
                           IF dateMatch.ok
                           THEN TrimRightSet(line0, {" ", "\t"}) \o <<" ", ":", ":">> \o Str_original
                                \o <<" ", "[", "[">> \o Group(dateMatch, line0, 1) \o <<"]", "]">>
                           ELSE line0)
                  ELSE line0, LAMBDA line1 :
                 Wrote(Join([lines EXCEPT ![lineNum] =
                                TrimRightSet(line1, {" ", "\t"}) \o <<" ">>
                                \o FormatMarker(Str_deferral, nw)], Newline)))))

\* the checkbox literals the marker commands are written with
Box_open       == <<"-", " ", "[", " ", "]">>
Box_irrelevant == <<"-", " ", "[", "-", "]">>
Box_partial    == <<"-", " ", "[", "~", "]">>

\* main.go cmdIrrelevant and cmdPartial: the checkbox, then the marker
cmdMark(data, lineNum, nw, kind, box) ==
    Bind(ChangeCheckbox(data, lineNum, Box_open, box), LAMBDA r :
        IF r.err THEN r ELSE AppendToLine(r.data, lineNum, FormatMarker(kind, nw)))

cmdIrrelevant(data, lineNum, nw) == cmdMark(data, lineNum, nw, Str_irrelevant, Box_irrelevant)
cmdPartial(data, lineNum, nw)    == cmdMark(data, lineNum, nw, Str_partial, Box_partial)

\* main.go cmdUnset, from the read of the file on
cmdUnset(data, lineNum) ==
    Bind(Split(data, Newline), LAMBDA lines :
        IF lineNum - 1 < 0 \/ lineNum - 1 >= Len(lines) THEN Refused(data)
        ELSE IF HasSub(lines[lineNum], <<":", ":">> \o Str_irrelevant)
        THEN Bind(RemoveLastMarker(data, lineNum, Str_irrelevant), LAMBDA r :
                 IF r.err THEN r ELSE ChangeCheckbox(r.data, lineNum, Box_irrelevant, Box_open))
        ELSE IF HasSub(lines[lineNum], <<":", ":">> \o Str_partial)
        THEN Bind(RemoveLastMarker(data, lineNum, Str_partial), LAMBDA r :
                 IF r.err THEN r ELSE ChangeCheckbox(r.data, lineNum, Box_partial, Box_open))
        ELSE Wrote(data))

(***************************************************************************)
(* The defer command run on one file                                       *)
(***************************************************************************)

MaxCalls == 2

\* the instants time.Now() gives a command
CommandInstants == {TestNow, [day |-> TestNow.day + 1, tod |-> 1]}

\* the line numbers a command is called with: the task line, the empty
\* last line and one past the end of the file
LineNums == {1, 2, 3}

\* line 1 of the file the defer command works on
DeferLines ==
    {<<"-", " ", "[", " ", "]", " ", "T", " ", "(", "@", "[", "[", "2", "0", "2", "6", "-", "0",
       "2", "-", "1", "7", "]", "]", ")">>,   \* due, never deferred
     <<"-", " ", "[", " ", "]", " ", "T", " ", "(", "@", "[", "[", "2", "0", "2", "6", "-", "0",
       "2", "-", "2", "0", "]", "]", ")", " ", ":", ":", "o", "r", "i", "g", "i", "n", "a",
       "l", " ", "[", "[", "2", "0", "2", "6", "-", "0", "2", "-", "1", "7", "]",
       "]">>,   \* deferred before, due on another day since
     <<"-", " ", "[", " ", "]", " ", "T", " ", "(", "@", "[", "[", "2", "0", "2", "6", "-", "0",
       "2", "-", "1", "7", "]", "]", " ", "0", "9", ":", "0", "0", ")", " ",
       " ">>,   \* due at a time, blanks at the end
     <<"-", " ", "[", " ", "]", " ", "a", ":", ":", "o", "r", "i", "g", "i", "n", "a", "l", "_",
       "b", " ", "(", "@", "[", "[", "2", "0", "2", "6", "-", "0", "2", "-", "1", "7", "]", "]",
       ")">>,   \* a body that names a::original_b
     <<"-", " ", "[", " ", "]", " ", "T">>}   \* undated

\* no parser, resolver or report builder takes part
NoReport ==
    /\ cfg = Idle /\ parseCtx = Idle /\ matches = Idle /\ rawLine = Idle /\ parsed = Idle
    /\ specs = Idle /\ weekStart = Monday /\ overlap = Idle /\ resolved = Idle
    /\ tasks = Idle /\ opts = Idle /\ report = Idle

InitDefer ==
    /\ pc = "cmd"
    /\ NoReport
    /\ now = TestNow
    /\ \E line \in DeferLines : file = line \o Newline
    /\ orig = file
    /\ args = <<>> /\ calls = 0 /\ err = FALSE
    /\ NoState

CmdDefer ==
    /\ pc = "cmd"
    /\ calls < MaxCalls
    /\ \E lineNum \in LineNums, nw \in CommandInstants :
          Bind(cmdDefer(file, lineNum, nw), LAMBDA r :
              /\ file' = r.data
              /\ err' = r.err
              /\ now' = nw
              /\ args' = Append(args, [cmd |-> "defer", lineNum |-> lineNum]))
    /\ calls' = calls + 1
    /\ UNCHANGED <<pc, orig, stateVars, reportVars>>

SpecDefer == InitDefer /\ [][CmdDefer]_vars

\* ::original\s+\[\[(\d{4}-\d{2}-\d{2})\]\]
originalMarkerPattern ==
    [node |-> SeqOf(<<Lit(<<":", ":">>), Lit(Str_original), Plus(Cls(SpaceChars)),
                      Lit(<<"[", "[">>), Cap(1, datePattern), Lit(<<"]", "]">>)>>),
     ncap |-> 1]

\* the dates of the ::original markers of a line, in the order of the line
OriginalDates(line) ==
    Bind(FindAll(originalMarkerPattern, line), LAMBDA ms :
        [i \in 1..Len(ms) |-> Group(ms[i], line, 1)])

\* the number of ::deferral markers of a line
Deferrals(line) == Len(FindAll(removeMarkerPattern(Str_deferral), line))

\* line 1 of the file now and before the first command
TaskLineNow  == Split(file, Newline)[1]
TaskLineOrig == Split(orig, Newline)[1]

\* the due date of a line as dateRe reads it
DueOf(line) == Group(Find(dateRe, line), line, 1)

\* the task line was dated and has been deferred since
DeferredDatedLine ==
    /\ Find(dateRe, TaskLineOrig).ok
    /\ Deferrals(TaskLineNow) > Deferrals(TaskLineOrig)

\* C22: a dated task line that has been deferred, once or more often,
\* carries exactly one ::original marker; its date is the one of the
\* ::original marker the line had before, and the due date the line had at
\* the first deferral when it had none.
C22_OneOriginalMarker ==
    DeferredDatedLine =>
        OriginalDates(TaskLineNow) =
            IF OriginalDates(TaskLineOrig) # <<>> THEN OriginalDates(TaskLineOrig)
            ELSE <<DueOf(TaskLineOrig)>>

(***************************************************************************)
(* The irrelevant, partial and unset commands run on one file              *)
(***************************************************************************)

\* line 1 of the file the commands work on: open tasks
MarkLines ==
    {<<"-", " ", "[", " ", "]", " ", "T">>,   \* a word
     <<"-", " ", "[", " ", "]", " ", "T", " ", "(", "@", "[", "[", "2", "0", "2", "6", "-", "0",
       "2", "-", "1", "7", "]", "]", ")", " ", "#", "w">>,   \* due, tagged
     <<" ", " ", "-", " ", "[", " ", "]", " ", "T", " ", " ">>,   \* indented, blanks at the end
     <<"-", " ", "[", " ", "]", " ", "i", "s", " ", ":", ":", "i", "r", "r", "e", "l", "e", "v",
       "a", "n", "t", " ", "o", "k">>,   \* a body that names ::irrelevant
     <<"-", " ", "[", " ", "]", " ", "T", " ", ":", ":", "s", "t", "a", "r", "t", " ", "[", "[",
       "2", "0", "2", "6", "-", "0", "2", "-", "1", "6", "]", "]", " ", "0", "9", ":", "0",
       "0">>}   \* started the day before

InitMark ==
    /\ pc = "cmd"
    /\ NoReport
    /\ now = TestNow
    /\ \E line \in MarkLines : file = line \o Newline
    /\ orig = file
    /\ args = <<>> /\ calls = 0 /\ err = FALSE
    /\ NoState

\* the step of a command that returned r
Ran(cmd, lineNum, nw, r) ==
    /\ file' = r.data
    /\ err' = r.err
    /\ now' = nw
    /\ args' = Append(args, [cmd |-> cmd, lineNum |-> lineNum])
    /\ calls' = calls + 1
    /\ UNCHANGED <<pc, orig, stateVars, reportVars>>

CmdIrrelevant ==
    /\ pc = "cmd"
    /\ calls < MaxCalls
    /\ \E lineNum \in LineNums, nw \in CommandInstants :
          Ran("irrelevant", lineNum, nw, cmdIrrelevant(file, lineNum, nw))

CmdPartial ==
    /\ pc = "cmd"
    /\ calls < MaxCalls
    /\ \E lineNum \in LineNums, nw \in CommandInstants :
          Ran("partial", lineNum, nw, cmdPartial(file, lineNum, nw))

CmdUnset ==
    /\ pc = "cmd"
    /\ calls < MaxCalls
    /\ \E lineNum \in LineNums : Ran("unset", lineNum, now, cmdUnset(file, lineNum))

NextMark == CmdIrrelevant \/ CmdPartial \/ CmdUnset

SpecMark == InitMark /\ [][NextMark]_vars

\* the task line was marked irrelevant or partial and then unset
MarkedThenUnset ==
    /\ Len(args) = 2
    /\ args[1].cmd \in {"irrelevant", "partial"} /\ args[1].lineNum = 1
    /\ args[2].cmd = "unset" /\ args[2].lineNum = 1

\* C23: an open task line that was marked irrelevant or partial and then
\* unset is the line it was before the mark: the checkbox is "- [ ]" again,
\* the marker is gone and nothing else has changed.
C23_UnsetRestoresLine ==
    MarkedThenUnset => TaskLineNow = TaskLineOrig

(***************************************************************************)
(* ChangeCheckbox called on one file                                       *)
(***************************************************************************)

\* the checkbox strings a caller looks up in the checkbox map: "" is what
\* the map gives for a status it does not have
BoxChoices == {<<>>, Box_open, <<"-", " ", "[", "x", "]">>}

CallChangeCheckbox ==
    /\ pc = "cmd"
    /\ calls < MaxCalls
    /\ \E lineNumber \in LineNums, from \in BoxChoices, to \in BoxChoices :
          Bind(ChangeCheckbox(file, lineNumber, from, to), LAMBDA r :
              /\ file' = r.data
              /\ err' = r.err
              /\ args' = Append(args, [cmd |-> "checkbox", lineNum |-> lineNumber,
                                       from |-> from, to |-> to]))
    /\ calls' = calls + 1
    /\ UNCHANGED <<pc, now, orig, stateVars, reportVars>>

SpecChangeCheckbox == InitMark /\ [][CallChangeCheckbox]_vars

\* the last call had an empty from or an empty to
EmptyBoxGiven(as) ==
    /\ Len(as) > 0
    /\ as[Len(as)].from = <<>> \/ as[Len(as)].to = <<>>

\* C24: a call of ChangeCheckbox with an empty from or an empty to returns
\* an error and leaves the bytes of the file as they were.
C24_EmptyBoxRefused ==
    [][(Len(args') = Len(args) + 1 /\ EmptyBoxGiven(args')) => (err' /\ file' = file)]_vars

C24_Witness ==
    /\ Len(args) = 2
    /\ args[1].from = Box_open /\ args[1].to # <<>> /\ args[1].to # Box_open /\ args[1].lineNum = 1
    /\ args[2].from # <<>> /\ args[2].to = <<>> /\ args[2].lineNum = 1
    /\ HasSub(file, args[2].from)
    /\ err
    /\ file # orig

(***************************************************************************)
(* The state file (go/state.go)                                            *)
(***************************************************************************)

CurrentTask(startTime, name, filePath, lineNumber) ==
    [StartTime |-> startTime, Name |-> name, FilePath |-> filePath, LineNumber |-> lineNumber]

\* fmt's %d
FormatInt(n) == IF n < 0 THEN <<"-">> \o Itoa(0 - n) ELSE Itoa(n)

\* strconv.ParseInt(s, 10, 64) and strconv.Atoi: an optional sign and one
\* digit or more (values within range)
ParseInt(s) ==
    Bind(IF s # <<>> /\ Head(s) \in {"+", "-"} THEN Tail(s) ELSE s, LAMBDA digits :
        IF digits = <<>> \/ \E i \in 1..Len(digits) : digits[i] \notin Digits
        THEN [err |-> TRUE, n |-> 0]
        ELSE [err |-> FALSE, n |-> Atoi(IF Head(s) = "+" THEN Tail(s) ELSE s)])

RECURSIVE SplitN(_, _, _)
\* strings.SplitN(s, sep, n) for n > 0 and a non-empty sep
SplitN(s, sep, n) ==
    Bind(Index(s, sep), LAMBDA i :
        IF n = 1 \/ i < 0 THEN <<s>>
        ELSE <<SubSeq(s, 1, i)>> \o SplitN(From(s, i + Len(sep) + 1), sep, n - 1))

\* the line of WriteCurrentTaskTo: "%d\t%s\t%s\t%d\n"
formatCurrentTask(ct) ==
    FormatInt(ct.StartTime) \o <<"\t">> \o ct.Name \o <<"\t">> \o ct.FilePath \o <<"\t">>
    \o FormatInt(ct.LineNumber) \o Newline

\* WriteCurrentTaskTo: the state file after the call (MkdirAll and WriteFile
\* succeed)
WriteCurrentTaskTo(ct) == FileOf(formatCurrentTask(ct))

NoCurrentTask == [err |-> FALSE, set |-> FALSE, ct |-> <<>>]

\* ReadCurrentTaskFrom: nil for a file that does not exist, an error for a
\* line that does not split into four fields with numbers at both ends
ReadCurrentTaskFrom(f) ==
    IF ~f.exists THEN NoCurrentTask
    ELSE Bind(SplitN(TrimRightSet(f.data, {"\n", "\r"}), <<"\t">>, 4), LAMBDA parts :
        IF Len(parts) < 4 THEN [err |-> TRUE, set |-> FALSE, ct |-> <<>>]
        ELSE Bind(ParseInt(parts[1]), LAMBDA ts :
             Bind(ParseInt(parts[4]), LAMBDA ln :
                 IF ts.err \/ ln.err THEN [err |-> TRUE, set |-> FALSE, ct |-> <<>>]
                 ELSE [err |-> FALSE, set |-> TRUE,
                       ct |-> CurrentTask(ts.n, parts[2], parts[3], ln.n)])))

\* a ClearCurrentTaskFrom that leaves the state file in place
ClearLeavesFile(f) == f

\* ClearCurrentTaskFrom: os.Remove, a missing file is no error
ClearCurrentTaskFrom(f) == NoFile

\* the records written: start times, task bodies (one with a tab between
\* its words), paths and line numbers
CurrentTasks ==
    {CurrentTask(ts, name, path, ln) :
        ts \in {0, 1739800000},
        name \in {<<>>, <<"T">>, <<"a", " ", "b">>, <<"a", "\t", "b">>, <<"#", "1">>},
        path \in {<<"/", "n", ".", "m", "d">>, <<"/", "a", " ", "b">>},
        ln \in {0, 3, 12}}

InitState ==
    /\ pc = "state"
    /\ NoReport
    /\ now = TestNow
    /\ file = <<>> /\ orig = <<>> /\ args = <<>> /\ calls = 0 /\ err = FALSE
    /\ NoState

CallWriteCurrentTaskTo ==
    /\ pc \in {"state", "written", "read"}
    /\ \E ct \in CurrentTasks :
          /\ stateFile' = WriteCurrentTaskTo(ct)
          /\ args' = <<ct>>
    /\ pc' = "written"
    /\ UNCHANGED <<now, file, orig, calls, err, got, disk, fmCache, reportVars, stackVars>>

CallReadCurrentTaskFrom ==
    /\ pc \in {"state", "written", "read"}
    /\ got' = ReadCurrentTaskFrom(stateFile)
    /\ pc' = "read"
    /\ UNCHANGED <<now, file, orig, args, calls, err, stateFile, disk, fmCache, reportVars, stackVars>>

CallClearCurrentTaskFrom ==
    /\ pc \in {"written", "read"}
    /\ stateFile' = ClearCurrentTaskFrom(stateFile)
    /\ pc' = "state"
    /\ UNCHANGED <<now, file, orig, args, calls, err, got, disk, fmCache, reportVars, stackVars>>

NextState == CallWriteCurrentTaskTo \/ CallReadCurrentTaskFrom \/ CallClearCurrentTaskFrom

SpecState == InitState /\ [][NextState]_vars

\* C25: a read of the state file that a write left behind returns no error
\* and the record written, equal in start time, name, file path and line
\* number.
C25_ReadGivesWritten ==
    (pc = "read" /\ stateFile.exists) =>
        /\ ~got.err
        /\ got.set
        /\ got.ct = args[1]

(***************************************************************************)
(* The frontmatter cache (go/frontmatter.go)                               *)
(***************************************************************************)

MaxOps == 3

Frontmatter(tags, due, status) == [Tags |-> tags, Due |-> due, Status |-> status]

\* the results of ParseFrontmatter: (nil, err), (nil, nil) and (&fm, nil)
FmError   == [err |-> TRUE, set |-> FALSE, fm |-> <<>>]
FmNone    == [err |-> FALSE, set |-> FALSE, fm |-> <<>>]
FmOf(fm)  == [err |-> FALSE, set |-> TRUE, fm |-> fm]

\* strings.TrimSpace(line) == "---"
IsFence(line) == TrimSpace(line) = <<"-", "-", "-">>

\* the lines bufio.Scanner gives for the bytes of a file
ScanLines(data) ==
    Bind(Split(data, Newline), LAMBDA ls :
        IF ls[Len(ls)] = <<>> THEN SubSeq(ls, 1, Len(ls) - 1) ELSE ls)

\* the lines from position i up to the closing fence or the end of the file
RECURSIVE UpToFence(_, _)
UpToFence(ls, i) ==
    IF i > Len(ls) \/ IsFence(ls[i]) THEN <<>> ELSE <<ls[i]>> \o UpToFence(ls, i + 1)

\* yaml.Unmarshal on the documents of the model: "due: D" and "status: S"
\* lines set a field, any other line is malformed
RECURSIVE yamlUnmarshal(_, _, _)
yamlUnmarshal(ls, i, fm) ==
    IF i > Len(ls) THEN [err |-> FALSE, fm |-> fm]
    ELSE IF IsPrefix(<<"d", "u", "e", ":", " ">>, ls[i])
    THEN yamlUnmarshal(ls, i + 1, [fm EXCEPT !.Due = From(ls[i], 6)])
    ELSE IF IsPrefix(<<"s", "t", "a", "t", "u", "s", ":", " ">>, ls[i])
    THEN yamlUnmarshal(ls, i + 1, [fm EXCEPT !.Status = From(ls[i], 9)])
    ELSE [err |-> TRUE, fm |-> fm]

\* frontmatter.go parseFrontmatterFromFile
parseFrontmatterFromFile(f) ==
    IF ~f.exists THEN FmError
    ELSE Bind(ScanLines(f.data), LAMBDA ls :
        IF Len(ls) = 0 \/ ~IsFence(ls[1]) THEN FmNone
        ELSE Bind(UpToFence(ls, 2), LAMBDA lines :
            IF Len(lines) = 0 THEN FmNone
            ELSE Bind(yamlUnmarshal(lines, 1, Frontmatter(<<>>, <<>>, <<>>)), LAMBDA y :
                IF y.err THEN FmNone ELSE FmOf(y.fm))))

\* a ParseFrontmatter that reads the file on every call
ParseFrontmatterUncached(cache, files, filePath) ==
    [result |-> parseFrontmatterFromFile(files[filePath]), cache |-> cache]

\* frontmatter.go ParseFrontmatter: [result, cache], the value returned and
\* the cache after the call
ParseFrontmatter(cache, files, filePath) ==
    IF filePath \in DOMAIN cache THEN [result |-> cache[filePath], cache |-> cache]
    ELSE Bind(parseFrontmatterFromFile(files[filePath]), LAMBDA r :
        IF r.err THEN [result |-> r, cache |-> cache]
        ELSE [result |-> r,
              cache |-> [q \in DOMAIN cache \cup {filePath} |->
                            IF q = filePath THEN r ELSE cache[q]]])

\* the paths asked for
FmPaths == {"a.md", "b.md"}

\* what a file holds: nothing that opens (it does not exist), no
\* frontmatter, frontmatter with one due date or another, a line that is
\* no YAML
FmFiles ==
    {NoFile,
     FileOf(<<"x", "\n">>),
     FileOf(<<"-", "-", "-", "\n", "d", "u", "e", ":", " ", "1", "\n", "-", "-", "-", "\n">>),
     FileOf(<<"-", "-", "-", "\n", "d", "u", "e", ":", " ", "2", "\n", "s", "t", "a", "t",
              "u", "s", ":", " ", "d", "\n", "-", "-", "-", "\n">>),
     FileOf(<<"-", "-", "-", "\n", "?", "\n", "-", "-", "-", "\n">>)}

InitFrontmatter ==
    /\ pc = "fm"
    /\ NoReport
    /\ now = TestNow
    /\ file = <<>> /\ orig = <<>> /\ args = <<>> /\ calls = 0 /\ err = FALSE
    /\ stateFile = NoFile /\ got = <<>>
    /\ disk \in [FmPaths -> FmFiles]
    /\ fmCache = <<>>
    /\ NoStacks

CallParseFrontmatter ==
    /\ pc = "fm"
    /\ calls < MaxOps
    /\ \E filePath \in FmPaths :
          Bind(ParseFrontmatter(fmCache, disk, filePath), LAMBDA r :
              /\ got' = r.result
              /\ fmCache' = r.cache
              /\ args' = Append(args, [cmd |-> "parse", path |-> filePath, result |-> r.result]))
    /\ calls' = calls + 1
    /\ UNCHANGED <<pc, now, file, orig, err, stateFile, disk, reportVars, stackVars>>

CallResetFrontmatterCache ==
    /\ pc = "fm"
    /\ calls < MaxOps
    /\ fmCache' = <<>>
    /\ args' = Append(args, [cmd |-> "reset", path |-> "", result |-> <<>>])
    /\ calls' = calls + 1
    /\ UNCHANGED <<pc, now, file, orig, err, stateFile, got, disk, reportVars, stackVars>>

\* the file at a path is written, or removed, by someone else
FileChanges ==
    /\ pc = "fm"
    /\ calls < MaxOps
    /\ \E filePath \in FmPaths, f \in FmFiles :
          /\ f # disk[filePath]
          /\ disk' = [disk EXCEPT ![filePath] = f]
          /\ args' = Append(args, [cmd |-> "write", path |-> filePath, result |-> <<>>])
    /\ calls' = calls + 1
    /\ UNCHANGED <<pc, now, file, orig, err, stateFile, got, fmCache, reportVars, stackVars>>

NextFrontmatter == CallParseFrontmatter \/ CallResetFrontmatterCache \/ FileChanges

SpecFrontmatter == InitFrontmatter /\ [][NextFrontmatter]_vars

\* calls i < j of ParseFrontmatter for one path with no reset between them
LaterCall(i, j) ==
    /\ i < j
    /\ args[i].cmd = "parse" /\ args[j].cmd = "parse"
    /\ args[i].path = args[j].path
    /\ \A k \in (i + 1)..(j - 1) : args[k].cmd # "reset"

\* C26 as stated: a call of ParseFrontmatter returns what every earlier call
\* for the path returned since the last reset of the cache.
C26_LaterCallsAgree ==
    \A i, j \in 1..Len(args) : LaterCall(i, j) => args[j].result = args[i].result

\* C26: a call of ParseFrontmatter returns what every earlier call for the
\* path returned without an error since the last reset of the cache,
\* whatever has happened to the file in between.
C26_LaterCallsAgreeAfterSuccess ==
    \A i, j \in 1..Len(args) :
        (LaterCall(i, j) /\ ~args[i].result.err) => args[j].result = args[i].result

C26_Witness ==
    /\ Len(args) = 3
    /\ LaterCall(1, 3)
    /\ args[1].result.set
    /\ args[2].cmd = "write" /\ args[2].path = args[1].path
    /\ parseFrontmatterFromFile(disk[args[1].path]) # args[1].result
    /\ got = args[1].result

(***************************************************************************)
(* Properties of the report under every horizon list and policy            *)
(***************************************************************************)

\* the label line above line k of the report (0: none)
HeaderOf(lines, k) ==
    LET ls == {j \in 1..(k - 1) : lines[j].kind = "label"}
    IN  IF ls = {} THEN 0 ELSE CHOOSE j \in ls : \A l \in ls : l <= j

\* the dated tasks that pass the tag filter
DatedTasksShown ==
    {n \in 1..Len(tasks) :
        /\ tasks[n].DueDate.set
        /\ Len(opts.TagFilter) > 0 => taskMatchesTags(tasks[n], opts.TagFilter)}

\* C27: FormatTaskfile returns for every task list, horizon list and
\* overlap policy, and the report lists every dated task that passes the
\* tag filter on exactly one line, below the header of a dated horizon of
\* the list; it has no other line for a dated task.
C27_EveryDatedTaskOnceUnderAHorizon ==
    pc = "done" =>
        /\ ~report.panic
        /\ \A n \in DatedTasksShown :
              Cardinality({k \in DatedTaskLines : report.lines[k].task = tasks[n]}) = 1
        /\ Cardinality(DatedTaskLines) = Cardinality(DatedTasksShown)
        /\ \A k \in DatedTaskLines :
              /\ HeaderOf(report.lines, k) # 0
              /\ \E i \in 1..Len(DH) :
                    /\ report.lines[HeaderOf(report.lines, k)].hz = i - 1
                    /\ report.lines[HeaderOf(report.lines, k)].text = DH[i].Label

\* FormatTaskfile over lists of up to MaxSectionTasks dated tasks: three tasks
\* are the fewest with which a horizon can be left and entered again
MaxSectionTasks == 3
InitFormatSections ==
    /\ pc = "call"
    /\ NoFiles
    /\ cfg = Idle /\ parseCtx = Idle /\ matches = Idle /\ rawLine = Idle /\ parsed = Idle
    /\ specs = Idle /\ weekStart = Monday /\ overlap = Idle /\ resolved = Idle
    /\ now = TestNow
    /\ \E ds \in SeqsUpTo({DateOf(d) : d \in DueDates}, MaxSectionTasks) : tasks = TaskList(ds)
    /\ \E cs \in SeqsUpTo(HorizonChoices, MaxHorizons) : \E ov \in Policies :
          opts = FormatOpts(FALSE, FALSE, <<>>, HorizonList(cs), ov)
    /\ report = Idle
SpecFormatSections == InitFormatSections /\ [][CallFormatTaskfile]_vars

\* the label lines of the report that carry the header of horizon i (0-based)
HeadersOf(i) ==
    {k \in 1..Len(report.lines) : report.lines[k].kind = "label" /\ report.lines[k].hz = i}

\* C28: in a report the header of a horizon is written at most once under
\* each overlap policy: the tasks listed under one horizon are one block.
C28_HeaderAtMostOnce ==
    Finished => \A i \in 0..(Len(DH) - 1) : Cardinality(HeadersOf(i)) <= 1

(***************************************************************************)
(* The do command (main.go cmdDo, cmdStopWithConfig)                       *)
(***************************************************************************)

\* scan.go scanPattern: \- \[.\]
scanPattern == [node |-> SeqOf(<<Lit(<<"-", " ", "[">>), AnyChar, Lit(<<"]">>)>>), ncap |-> 0]

\* Scan of one notes file: a match of rg for every line with a checkbox,
\* with its line number and its text
Scan(path, data) ==
    Bind(ScanLines(data), LAMBDA ls :
        SelectSeq([i \in 1..Len(ls) |-> RawMatch(path, i, ls[i] \o Newline)],
                  LAMBDA m : Find(scanPattern, m.Text).ok))

\* the parse context of the built-in syntax
DefaultContext ==
    NewParseContext(DefaultConfig, CHOOSE o \in MapOrders(DOMAIN checkboxOf(DefaultConfig)) : TRUE)

\* cmdDo: the open tasks due on the day of now
todayTasks(ms, nw) ==
    Bind(ParseTasks(ms, DefaultContext), LAMBDA r :
        IF r.panic THEN r
        ELSE [panic |-> FALSE,
              tasks |-> SelectSeq(r.tasks, LAMBDA t :
                            t.Status = Str_open /\ t.DueDate.set /\ t.DueDate.day = nw.day)])

\* Time.Unix of an instant of the model
Unix(nw) == nw.day * 86400 + nw.tod * 86399

\* the one notes file, and a path at which there is no file
NotesPath == <<"/", "n", ".", "m", "d">>
GonePath  == <<"/", "g", "o", "n", "e">>

\* AppendToLine to the file at a path: os.ReadFile fails for a missing file
AppendToFile(data, path, lineNumber, text) ==
    IF path # NotesPath THEN Refused(data) ELSE AppendToLine(data, lineNumber, text)

Str_start == <<"s", "t", "a", "r", "t">>
Str_stop  == <<"s", "t", "o", "p">>

\* the lines of the notes file: two tasks due on 2026-02-17, one due the day
\* after
DoLines ==
    <<<<"-", " ", "[", " ", "]", " ", "A", " ", "(", "@", "[", "[", "2", "0", "2", "6", "-", "0",
        "2", "-", "1", "7", "]", "]", ")">>,
      <<"-", " ", "[", " ", "]", " ", "B", " ", "(", "@", "[", "[", "2", "0", "2", "6", "-", "0",
        "2", "-", "1", "8", "]", "]", ")">>,
      <<"-", " ", "[", " ", "]", " ", "C", " ", "(", "@", "[", "[", "2", "0", "2", "6", "-", "0",
        "2", "-", "1", "7", "]", "]", ")">>>>

\* the state files a do command can find: none, the record of a task of the
\* notes file, a record of a line or of a file that is gone, and a line that
\* is no record
StaleStates ==
    {NoFile,
     FileOf(<<"x">> \o Newline)}
    \cup {WriteCurrentTaskTo(CurrentTask(0, <<"A">>, p, ln)) :
             p \in {NotesPath, GonePath}, ln \in {1, 9}}

parserVars == <<cfg, parseCtx, matches, rawLine, parsed, specs, weekStart, overlap, resolved, opts, report>>

InitDo ==
    /\ pc = "idle"
    /\ NoReport
    /\ now = TestNow
    /\ \E n \in 1..Len(DoLines) : file = Join(SubSeq(DoLines, 1, n), Newline) \o Newline
    /\ orig = file
    /\ args = <<>> /\ calls = 0 /\ err = FALSE
    /\ stateFile \in StaleStates
    /\ got = <<>> /\ disk = <<>> /\ fmCache = <<>>
    /\ NoStacks

\* cmdDo up to the decision whether a task is to be stopped
DoBegin ==
    /\ pc = "idle"
    /\ calls < MaxCalls
    /\ \E nw \in CommandInstants : now' = nw
    /\ Bind(ReadCurrentTaskFrom(stateFile), LAMBDA existing :
          /\ got' = existing
          /\ err' = existing.err
          /\ pc' = IF existing.err THEN "idle" ELSE IF existing.set THEN "stop" ELSE "scan")
    /\ orig' = file
    /\ calls' = calls + 1
    /\ UNCHANGED <<file, args, stateFile, disk, fmCache, tasks, parserVars, stackVars>>

\* cmdStopWithConfig up to the stop marker
DoStopAppend ==
    /\ pc = "stop"
    /\ Bind(ReadCurrentTaskFrom(stateFile), LAMBDA ct :
          IF ct.err THEN err' = TRUE /\ pc' = "idle" /\ file' = file
          ELSE IF ~ct.set THEN err' = FALSE /\ pc' = "scan" /\ file' = file
          ELSE \E nw \in {t \in CommandInstants : t.day >= now.day} :
                  Bind(AppendToFile(file, ct.ct.FilePath, ct.ct.LineNumber, FormatMarker(Str_stop, nw)),
                       LAMBDA r :
                          /\ file' = r.data
                          /\ err' = r.err
                          /\ pc' = IF r.err THEN "idle" ELSE "clear"))
    /\ UNCHANGED <<now, orig, args, calls, stateFile, got, disk, fmCache, tasks, parserVars, stackVars>>

\* cmdStopWithConfig from ClearCurrentTaskFrom on; os.Remove can fail
DoStopClear ==
    /\ pc = "clear"
    /\ \/ stateFile' = ClearCurrentTaskFrom(stateFile) /\ err' = FALSE /\ pc' = "scan"
       \/ stateFile' = stateFile /\ err' = TRUE /\ pc' = "idle"
    /\ UNCHANGED <<now, file, orig, args, calls, got, disk, fmCache, tasks, parserVars, stackVars>>

\* cmdDo: Scan, ParseTasks and the tasks due today
DoScan ==
    /\ pc = "scan"
    /\ Bind(todayTasks(Scan(NotesPath, file), now), LAMBDA r :
          /\ tasks' = IF r.panic THEN <<>> ELSE r.tasks
          /\ err' = r.panic
          /\ pc' = IF r.panic \/ r.tasks = <<>> THEN "idle" ELSE "select")
    /\ UNCHANGED <<now, file, orig, args, calls, stateFile, got, disk, fmCache, parserVars, stackVars>>

\* cmdDo: fzf returns one of the lines it was given, or nothing
DoSelect ==
    /\ pc = "select"
    /\ \/ \E idx \in 0..(Len(tasks) - 1) :
             /\ args' = Append(args, [cmd |-> "do", idx |-> idx])
             /\ pc' = "start"
       \/ args' = args /\ pc' = "idle"
    /\ UNCHANGED <<now, file, orig, calls, err, stateFile, got, disk, fmCache, tasks, parserVars, stackVars>>

\* the task chosen in DoSelect
Chosen == tasks[args[Len(args)].idx + 1]

\* cmdDo: the start marker
DoStart ==
    /\ pc = "start"
    /\ Bind(AppendToFile(file, Chosen.FilePath, Chosen.LineNumber, FormatMarker(Str_start, now)),
            LAMBDA r :
               /\ file' = r.data
               /\ err' = r.err
               /\ pc' = IF r.err THEN "idle" ELSE "save")
    /\ UNCHANGED <<now, orig, args, calls, stateFile, got, disk, fmCache, tasks, parserVars, stackVars>>

\* cmdDo: the record of the task started
DoSave ==
    /\ pc = "save"
    /\ stateFile' = WriteCurrentTaskTo(
                        CurrentTask(Unix(now), Chosen.Body, Chosen.FilePath, Chosen.LineNumber))
    /\ pc' = "idle"
    /\ UNCHANGED <<now, file, orig, args, calls, err, got, disk, fmCache, tasks, parserVars, stackVars>>

NextDo == DoBegin \/ DoStopAppend \/ DoStopClear \/ DoScan \/ DoSelect \/ DoStart \/ DoSave

SpecDo == InitDo /\ [][NextDo]_vars

RECURSIVE Occurrences(_, _)
\* strings.Count for a non-empty sub
Occurrences(s, sub) ==
    IF Index(s, sub) < 0 THEN 0
    ELSE 1 + Occurrences(From(s, Index(s, sub) + Len(sub) + 1), sub)

StartMarker == <<":", ":">> \o Str_start
StopMarker  == <<":", ":">> \o Str_stop

\* the step writes a ::start marker into the notes file
StartWritten == Occurrences(file', StartMarker) > Occurrences(file, StartMarker)

\* the notes file is the file of the start of the command with a ::stop
\* marker appended to line ln
StoppedAt(ln) ==
    \E nw \in CommandInstants :
        Bind(AppendToLine(orig, ln, FormatMarker(Str_stop, nw)), LAMBDA r : ~r.err /\ file = r.data)

\* C29: when a do command finds a running task in the state file, the ::stop
\* marker is appended to the line of that task and the state file is cleared
\* before a ::start marker is written; no ::start marker is written while
\* the state file records a running task.
C29_StopBeforeStart ==
    [][StartWritten =>
          /\ ~stateFile.exists
          /\ ~ReadCurrentTaskFrom(stateFile).set
          /\ got.set => (got.ct.FilePath = NotesPath /\ StoppedAt(got.ct.LineNumber))]_vars

\* a do command has stopped the running task, cleared the state file and
\* written the ::start marker of the task chosen
C29_Witness ==
    /\ pc = "save"
    /\ got.set
    /\ ~stateFile.exists
    /\ Occurrences(file, StopMarker) > Occurrences(orig, StopMarker)
    /\ Occurrences(file, StartMarker) > Occurrences(orig, StartMarker)

(***************************************************************************)
(* Undo and redo of edits of source lines (lua/taskbuffer/undo.lua)        *)
(***************************************************************************)

MAX_STACK == 100

\* Lua's nil where a line is expected
Nil == <<>>

\* a line of a source file: a task due on day k, or a line without a date
DatedLine(k) == <<"d", k>>
PlainLine    == <<"x">>

\* a source file: its lines as io.lines gives them, and whether
\* io.open(path, "w") succeeds
SourceFile(lines, writable) == [lines |-> lines, writable |-> writable]

UndoEdit(filepath, linenumber, old_line, new_line) ==
    [filepath |-> filepath, linenumber |-> linenumber, old_line |-> old_line,
     new_line |-> new_line]
UndoEntry(op, edits) == [op |-> op, edits |-> edits]

\* read_line_from_file: the line, nil past the end of the file
read_line_from_file(files, path, target) ==
    IF target \in 1..Len(files[path].lines) THEN files[path].lines[target] ELSE Nil

\* util.replace_line_in_file: the files after the call; a file that cannot
\* be opened for writing is left as it is
replace_line_in_file(files, path, target_line, new_content) ==
    IF ~files[path].writable THEN files
    ELSE [files EXCEPT ![path].lines =
             [i \in 1..Len(@) |-> IF i = target_line THEN new_content ELSE @[i]]]

\* util.shift_date_in_string: nil for a line without a date
shift_date_in_string(line, days) ==
    IF Len(line) = 2 THEN DatedLine(line[2] + days) ELSE Nil

\* undo.lua M.push
push(stack, entry) ==
    Bind(Append(stack, entry), LAMBDA st : IF Len(st) > MAX_STACK THEN Tail(st) ELSE st)

\* the order in which undo and redo apply the edits of an entry
editAfter(a, b) ==
    IF a.filepath = b.filepath THEN a.linenumber > b.linenumber
    ELSE StrLess(b.filepath, a.filepath)

RECURSIVE applyEdits(_, _, _, _)
\* the loop over edits_sorted from edit i on: field is the side written back
applyEdits(files, edits, i, field) ==
    IF i > Len(edits) THEN files
    ELSE applyEdits(replace_line_in_file(files, edits[i].filepath, edits[i].linenumber,
                                         edits[i][field]),
                    edits, i + 1, field)

\* the validation loop: some line is not what the entry expects there
modifiedExternally(files, edits, field) ==
    \E i \in 1..Len(edits) :
        read_line_from_file(files, edits[i].filepath, edits[i].linenumber) # edits[i][field]

Stacks(us, rs, files) == [undo_stack |-> us, redo_stack |-> rs, files |-> files]

\* undo.lua M.undo
undo(us, rs, files) ==
    IF Len(us) = 0 THEN Stacks(us, rs, files)
    ELSE Bind(us[Len(us)], LAMBDA entry :
        IF modifiedExternally(files, entry.edits, "new_line") THEN Stacks(us, rs, files)
        ELSE Stacks(SubSeq(us, 1, Len(us) - 1), Append(rs, entry),
                    applyEdits(files, SortSlice(entry.edits, editAfter), 1, "old_line")))

\* undo.lua M.redo
redo(us, rs, files) ==
    IF Len(rs) = 0 THEN Stacks(us, rs, files)
    ELSE Bind(rs[Len(rs)], LAMBDA entry :
        IF modifiedExternally(files, entry.edits, "old_line") THEN Stacks(us, rs, files)
        ELSE Stacks(Append(us, entry), SubSeq(rs, 1, Len(rs) - 1),
                    applyEdits(files, SortSlice(entry.edits, editAfter), 1, "new_line")))

\* the source lines the task buffer lists, in the order of the buffer
UndoPaths == {<<"a">>, <<"b">>}
Locations ==
    <<[filepath |-> <<"a">>, linenumber |-> 1], [filepath |-> <<"a">>, linenumber |-> 2],
      [filepath |-> <<"b">>, linenumber |-> 1]>>

\* keymaps.lua shift_task_dates_bulk: the edits of the lines selected
shiftEdits(files, sel, days) ==
    Bind(SelectSeq(Locations, LAMBDA l : l \in sel), LAMBDA ls :
    Bind([i \in 1..Len(ls) |->
            Bind(read_line_from_file(files, ls[i].filepath, ls[i].linenumber), LAMBDA src :
                UndoEdit(ls[i].filepath, ls[i].linenumber, src,
                         IF src = Nil THEN Nil ELSE shift_date_in_string(src, days)))],
         LAMBDA es : SelectSeq(es, LAMBDA e : e.old_line # Nil /\ e.new_line # Nil)))

InitUndo ==
    /\ pc = "undo"
    /\ NoReport
    /\ now = TestNow
    /\ file = <<>> /\ orig = <<>> /\ args = <<>> /\ calls = 0 /\ err = FALSE
    /\ stateFile = NoFile /\ got = <<>> /\ fmCache = <<>>
    /\ disk = [p \in UndoPaths |->
                 SourceFile(IF p = <<"a">> THEN <<DatedLine(0), DatedLine(5)>>
                            ELSE <<DatedLine(0)>>, TRUE)]
    /\ NoStacks

\* shift_task_dates_bulk over a selection of the buffer
ShiftDates ==
    /\ pc = "undo"
    /\ calls < MaxOps
    /\ \E sel \in SUBSET {Locations[i] : i \in 1..Len(Locations)}, days \in {1, -1} :
          Bind(shiftEdits(disk, sel, days), LAMBDA all_edits :
              /\ all_edits # <<>>
              /\ disk' = applyEdits(disk, SortSlice(all_edits, editAfter), 1, "new_line")
              /\ undo_stack' = push(undo_stack, UndoEntry(<<"shift", days>>, all_edits))
              /\ redo_stack' = <<>>)
    /\ args' = Append(args, "shift")
    /\ calls' = calls + 1
    /\ UNCHANGED <<pc, now, file, orig, err, stateFile, got, fmCache, reportVars>>

CallUndo ==
    /\ pc = "undo"
    /\ calls < MaxOps
    /\ Bind(undo(undo_stack, redo_stack, disk), LAMBDA r :
          /\ undo_stack' = r.undo_stack
          /\ redo_stack' = r.redo_stack
          /\ disk' = r.files)
    /\ args' = Append(args, "undo")
    /\ calls' = calls + 1
    /\ UNCHANGED <<pc, now, file, orig, err, stateFile, got, fmCache, reportVars>>

CallRedo ==
    /\ pc = "undo"
    /\ calls < MaxOps
    /\ Bind(redo(undo_stack, redo_stack, disk), LAMBDA r :
          /\ undo_stack' = r.undo_stack
          /\ redo_stack' = r.redo_stack
          /\ disk' = r.files)
    /\ args' = Append(args, "redo")
    /\ calls' = calls + 1
    /\ UNCHANGED <<pc, now, file, orig, err, stateFile, got, fmCache, reportVars>>

\* a line of a source file is rewritten outside the task buffer
ExternalEdit ==
    /\ pc = "undo"
    /\ calls < MaxOps
    /\ \E p \in UndoPaths : \E n \in 1..Len(disk[p].lines) :
          /\ disk[p].lines[n] # PlainLine
          /\ disk' = [disk EXCEPT ![p].lines[n] = PlainLine]
    /\ args' = Append(args, "edit")
    /\ calls' = calls + 1
    /\ UNCHANGED <<pc, now, file, orig, err, stateFile, got, fmCache, stackVars, reportVars>>

\* a source file loses its write permission
ExternalChmod ==
    /\ pc = "undo"
    /\ calls < MaxOps
    /\ \E p \in UndoPaths :
          /\ disk[p].writable
          /\ disk' = [disk EXCEPT ![p].writable = FALSE]
    /\ args' = Append(args, "chmod")
    /\ calls' = calls + 1
    /\ UNCHANGED <<pc, now, file, orig, err, stateFile, got, fmCache, stackVars, reportVars>>

NextUndo == ShiftDates \/ CallUndo \/ CallRedo \/ ExternalEdit \/ ExternalChmod

SpecUndo == InitUndo /\ [][NextUndo]_vars

\* the step is a call of the command cmd
StepOf(cmd) == Len(args') = Len(args) + 1 /\ args'[Len(args')] = cmd

\* after the step every edit of the entry shows the line of the side field
AllApplied(entry, field) ==
    \A i \in 1..Len(entry.edits) :
        read_line_from_file(disk', entry.edits[i].filepath, entry.edits[i].linenumber)
            = entry.edits[i][field]

NothingDone == disk' = disk /\ undo_stack' = undo_stack /\ redo_stack' = redo_stack

\* C30: undo and redo are all-or-nothing. When a line recorded in the top
\* entry is not what the recorded operation left there, no file is written
\* and both stacks stay as they are; otherwise every edit of the entry is
\* applied and the entry moves to the other stack.
C30_UndoRedoAllOrNothing ==
    [][/\ (StepOf("undo") /\ undo_stack # <<>>) =>
             Bind(undo_stack[Len(undo_stack)], LAMBDA entry :
                 IF modifiedExternally(disk, entry.edits, "new_line") THEN NothingDone
                 ELSE /\ AllApplied(entry, "old_line")
                      /\ undo_stack' = SubSeq(undo_stack, 1, Len(undo_stack) - 1)
                      /\ redo_stack' = Append(redo_stack, entry))
       /\ (StepOf("redo") /\ redo_stack # <<>>) =>
             Bind(redo_stack[Len(redo_stack)], LAMBDA entry :
                 IF modifiedExternally(disk, entry.edits, "old_line") THEN NothingDone
                 ELSE /\ AllApplied(entry, "new_line")
                      /\ redo_stack' = SubSeq(redo_stack, 1, Len(redo_stack) - 1)
                      /\ undo_stack' = Append(undo_stack, entry))]_vars

====
